---- MODULE Spec2Model ----
(***************************************************************************)
(* EduManage server: REST routes over a document store (users,            *)
(* teacherRequests, classes, enroll, payments).  The repository holds      *)
(* several iterations of the server; `prog` names the one that is running. *)
(* Every route handler is an async function: each awaited storage call is  *)
(* one atomic step of the store, and the handler's synchronous code up to  *)
(* the next await runs with it.  Requests in flight occupy slots.          *)
(***************************************************************************)
EXTENDS Integers, Sequences, FiniteSets, TLC

VARIABLES server, prog, users, teacherRequests, classes, enroll, payments, intents,
          reqs, clock, nextClassId

vars == <<server, prog, users, teacherRequests, classes, enroll, payments, intents,
          reqs, clock, nextClassId>>

---------------------------------------------------------------------------
(* Bounds of the model *)

MaxInFlight == 2
MaxUsers == 2
MaxTeacherRequests == 2
MaxClock == 2
MaxClasses == 1
MaxEnroll == 2
MaxPayments == 2
MaxIntents == 1

---------------------------------------------------------------------------
(* Values *)

Null == "null"
Undef == "undefined"

Emails == {"a@x", "b@x"}
HeaderEmails == Emails \cup {Undef}
HeaderRoles == {"admin", "student", Undef}
UserRoles == {"student"}
AdminEmails == {"admin@x"}
Slots == 1..MaxInFlight

(* a JavaScript value used as a condition *)
Truthy(v) == v \notin {Undef, Null, "", "0"}

(* req.headers[h] || dflt *)
OrElse(v, dflt) == IF Truthy(v) THEN v ELSE dflt

---------------------------------------------------------------------------
(* The document store: a collection is the sequence of its documents in   *)
(* insertion order; findOne / updateOne / deleteOne act on the first      *)
(* document that matches the filter.                                      *)


(* a filter { field: value, ... } *)
Matches(d, filter) == \A k \in DOMAIN filter : k \in DOMAIN d /\ d[k] = filter[k]

FirstIdx(coll, filter) ==
  IF \E i \in 1..Len(coll) : Matches(coll[i], filter)
    THEN CHOOSE i \in 1..Len(coll) :
           Matches(coll[i], filter) /\ \A j \in 1..(i - 1) : ~Matches(coll[j], filter)
    ELSE 0

(* { $set: set } *)
ApplySet(d, set) ==
  [k \in DOMAIN d \cup DOMAIN set |-> IF k \in DOMAIN set THEN set[k] ELSE d[k]]

UpdateOne(coll, filter, set) ==
  IF FirstIdx(coll, filter) = 0 THEN coll
  ELSE [coll EXCEPT ![FirstIdx(coll, filter)] = ApplySet(@, set)]

DeleteOne(coll, filter) ==
  IF FirstIdx(coll, filter) = 0 THEN coll
  ELSE [j \in 1..(Len(coll) - 1) |->
          IF j < FirstIdx(coll, filter) THEN coll[j] ELSE coll[j + 1]]

InsertOne(coll, doc) == Append(coll, doc)

CountWhere(coll, filter) == Cardinality({i \in 1..Len(coll) : Matches(coll[i], filter)})

---------------------------------------------------------------------------
(* Requests *)

NoResp == [status |-> 0, msg |-> ""]
NoArgs == [none |-> TRUE]
IdleReq == [op |-> "none", pc |-> "idle", args |-> NoArgs, loc |-> NoArgs, resp |-> NoResp]

(* a slot holds a request from its arrival to its response; which free slot *)
(* a new request takes makes no difference, so it takes the lowest          *)
Idle(s) == reqs[s].pc \in {"idle", "done"}
Free(s) == Idle(s) /\ \A t \in 1..(s - 1) : ~Idle(t)
At(s, op, pc) == reqs[s].op = op /\ reqs[s].pc = pc

(* the mock authentication middleware *)
mockAuth(hEmail, hRole) ==
  IF prog = "part2"
    THEN [email |-> OrElse(hEmail, "teacher@example.com"), role |-> OrElse(hRole, "teacher")]
    ELSE [email |-> OrElse(hEmail, Null), role |-> OrElse(hRole, Null)]

requireAdmin_AnyRole(user) == Truthy(user.role)

(* requireAdmin lets the request through *)
requireAdmin(user) == user.role = "admin"

(* the slots when a request arrives: the responses already sent are gone *)
Waiting == [t \in Slots |-> IF reqs[t].pc = "done" THEN IdleReq ELSE reqs[t]]

(* args: what the handler has read from the request and still uses *)
NewReq(op, pc, args) ==
  [op |-> op, pc |-> pc, args |-> args, loc |-> NoArgs, resp |-> NoResp]

(* res.status(status).json(msg): the request is answered and its locals are gone *)
Done(r, status, msg) ==
  [op |-> r.op, pc |-> "done", args |-> NoArgs, loc |-> NoArgs,
   resp |-> [status |-> status, msg |-> msg]]

(* a request that is answered before its first storage call *)
Rejected(op, status, msg) == Done(NewReq(op, "start", NoArgs), status, msg)

(* the same, the answered request still shown with what it asked *)
DoneKeep(r, status, msg) ==
  [r EXCEPT !.pc = "done", !.resp = [status |-> status, msg |-> msg]]

(* the same, the response carrying the id the storage call returned *)
DoneWith(r, status, msg, loc) ==
  [op |-> r.op, pc |-> "done", args |-> NoArgs, loc |-> loc,
   resp |-> [status |-> status, msg |-> msg]]

(* new ObjectId(id) threw in a handler without try/catch: the promise is      *)
(* rejected and the request is never answered                                *)
Thrown(op, args) == NewReq(op, "hung", args)

(* Express runs the first handler registered for a method and path; none of  *)
(* the handlers calls next(), so a later registration never runs             *)
Registered(route) ==
  IF route \in {"requestTeacher", "approve", "deny"}
    THEN (IF prog \in {"index", "p1"} THEN <<"flag", "collection">>
          ELSE IF prog = "p0" THEN <<"collection">> ELSE << >>)
  ELSE IF route \in {"createIntent", "payments"}
    THEN (IF prog \in {"p0", "p1"} THEN <<prog>> ELSE << >>)
  ELSE IF route \in {"confirmEnroll", "paymentSuccess"}
    THEN (IF prog = "p1" THEN <<"p1">> ELSE << >>)
  ELSE IF route \in {"enroll", "cancel"}
    THEN (IF prog \in {"part1", "part2"} THEN << >> ELSE <<"guarded">>)
  ELSE IF prog = "p1" /\ route \in {"put", "setStatus", "delete"} THEN <<"guarded", "raw">>
  ELSE IF prog = "part2" THEN <<"part2">>
  ELSE IF prog = "part1" THEN (IF route = "createClass" THEN <<"bare">> ELSE << >>)
  ELSE <<"guarded">>

Handler_Last(route) ==
  IF Registered(route) = << >> THEN "none" ELSE Registered(route)[Len(Registered(route))]

Handler(route) == IF Registered(route) = << >> THEN "none" ELSE Head(Registered(route))

Quiet == \A s \in Slots : Idle(s)

Goto(r, pc) == [r EXCEPT !.pc = pc]
GotoWith(r, pc, loc) == [r EXCEPT !.pc = pc, !.loc = loc]

---------------------------------------------------------------------------
(* Users and teacher requests (first program of part_000)                  *)

Names == {"n1"}
UserBodies ==
  [name : Names, email : Emails \cup {Undef}, photo : {"ph"}, role : {Undef, "admin"}]
Fields == {Undef, "v"}
AllTeacherBodies == [name : Fields, experience : Fields, title : Fields, category : Fields]
(* request bodies with at most one field missing *)
TeacherBodies ==
  {b \in AllTeacherBodies :
     Cardinality({f \in {"name", "experience", "title", "category"} : b[f] = Undef}) <= 1}

ByEmail(coll, e) == FirstIdx(coll, [email |-> e])
ByEmailPending(coll, e) == FirstIdx(coll, [email |-> e, status |-> "pending"])

(* POST /api/users *)
StartCreateUser(s, body) ==
  /\ Free(s)
  /\ reqs' = [Waiting EXCEPT ![s] =
       IF ~Truthy(body.email)
         THEN Rejected("createUser", 400, "Email is required")
         ELSE NewReq("createUser", "findOne",
                     [name |-> body.name, email |-> body.email, photo |-> body.photo])]
  /\ UNCHANGED <<server, prog, users, teacherRequests, classes, enroll, payments, intents,
                 clock, nextClassId>>

CreateUserFindOne_NoCheck(s) ==
  /\ At(s, "createUser", "findOne")
  /\ reqs' = [reqs EXCEPT ![s] = Goto(@, "insertOne")]
  /\ UNCHANGED <<server, prog, users, teacherRequests, classes, enroll, payments, intents,
                 clock, nextClassId>>

CreateUserFindOne(s) ==
  /\ At(s, "createUser", "findOne")
  /\ reqs' = [reqs EXCEPT ![s] =
       IF ByEmail(users, reqs[s].args.email) # 0
         THEN Done(@, 200, "User already exists")
         ELSE Goto(@, "insertOne")]
  /\ UNCHANGED <<server, prog, users, teacherRequests, classes, enroll, payments, intents,
                 clock, nextClassId>>

NewUser(body) ==
  [name |-> body.name, email |-> body.email, photo |-> body.photo,
   role |-> "student", teacherRequest |-> FALSE]

CreateUserInsertOne(s) ==
  /\ At(s, "createUser", "insertOne")
  /\ Len(users) < MaxUsers
  /\ users' = InsertOne(users, NewUser(reqs[s].args))
  /\ reqs' = [reqs EXCEPT ![s] = Done(@, 201, "User created")]
  /\ UNCHANGED <<server, prog, teacherRequests, classes, enroll, payments, intents,
                 clock, nextClassId>>

(* POST /api/users/request-teacher *)
StartRequestTeacher(s, hEmail, hRole, body) ==
  /\ Free(s)
  /\ LET user == mockAuth(hEmail, hRole)
     IN reqs' = [Waiting EXCEPT ![s] =
          IF ~Truthy(user.email)
            THEN Rejected("requestTeacher", 400, "User not logged in")
          ELSE IF ~Truthy(body.name) \/ ~Truthy(body.experience)
                  \/ ~Truthy(body.title) \/ ~Truthy(body.category)
            THEN Rejected("requestTeacher", 400, "All fields are required")
          ELSE NewReq("requestTeacher", "findUser", [email |-> user.email, body |-> body])]
  /\ UNCHANGED <<server, prog, users, teacherRequests, classes, enroll, payments, intents,
                 clock, nextClassId>>

RequestTeacherFindUser(s) ==
  /\ At(s, "requestTeacher", "findUser")
  /\ LET i == ByEmail(users, reqs[s].args.email)
     IN reqs' = [reqs EXCEPT ![s] =
          IF i = 0 THEN Done(@, 404, "User not found")
          ELSE IF users[i].role = "teacher" THEN Done(@, 400, "You are already a teacher")
          ELSE Goto(@, "findRequest")]
  /\ UNCHANGED <<server, prog, users, teacherRequests, classes, enroll, payments, intents,
                 clock, nextClassId>>

RequestTeacherFindRequest(s) ==
  /\ At(s, "requestTeacher", "findRequest")
  /\ LET i == ByEmail(teacherRequests, reqs[s].args.email)
     IN reqs' = [reqs EXCEPT ![s] =
          IF i # 0 /\ teacherRequests[i].status = "pending"
            THEN Done(@, 400, "Teacher request already pending")
            ELSE GotoWith(@, "write", [existing |-> (i # 0), requestedAt |-> clock])]
  /\ UNCHANGED <<server, prog, users, teacherRequests, classes, enroll, payments, intents,
                 clock, nextClassId>>

(* { ...newRequest, status: 'pending', requestedAt: new Date() } *)
SetNewRequest(r) ==
  [email |-> r.args.email, name |-> r.args.body.name,
   experience |-> r.args.body.experience, title |-> r.args.body.title,
   category |-> r.args.body.category, status |-> "pending",
   requestedAt |-> r.loc.requestedAt]

(* the inserted newRequest; approvedAt / rejectedAt 0: the field is not set *)
NewRequest(r) == ApplySet(SetNewRequest(r), [approvedAt |-> 0, rejectedAt |-> 0])

RequestTeacherWrite(s) ==
  /\ At(s, "requestTeacher", "write")
  /\ IF reqs[s].loc.existing
       THEN teacherRequests' = UpdateOne(teacherRequests, [email |-> reqs[s].args.email],
                                         SetNewRequest(reqs[s]))
       ELSE /\ Len(teacherRequests) < MaxTeacherRequests
            /\ teacherRequests' = InsertOne(teacherRequests, NewRequest(reqs[s]))
  /\ reqs' = [reqs EXCEPT ![s] = Done(@, 200, "Teacher request submitted for review")]
  /\ UNCHANGED <<server, prog, users, classes, enroll, payments, intents, clock, nextClassId>>

(* PATCH /api/users/request-teacher/resubmit *)
StartResubmit(s, hEmail, hRole) ==
  /\ Free(s)
  /\ LET user == mockAuth(hEmail, hRole)
     IN reqs' = [Waiting EXCEPT ![s] =
          IF ~Truthy(user.email)
            THEN Rejected("resubmit", 400, "User not logged in")
            ELSE NewReq("resubmit", "findOne", [email |-> user.email])]
  /\ UNCHANGED <<server, prog, users, teacherRequests, classes, enroll, payments, intents,
                 clock, nextClassId>>

ResubmitFindOne(s) ==
  /\ At(s, "resubmit", "findOne")
  /\ LET i == ByEmail(teacherRequests, reqs[s].args.email)
     IN reqs' = [reqs EXCEPT ![s] =
          IF i = 0 \/ teacherRequests[i].status # "rejected"
            THEN Done(@, 400, "No rejected request to resubmit")
            ELSE GotoWith(@, "updateOne", [requestedAt |-> clock])]
  /\ UNCHANGED <<server, prog, users, teacherRequests, classes, enroll, payments, intents,
                 clock, nextClassId>>

ResubmitUpdateOne_KeepTime(s) ==
  /\ At(s, "resubmit", "updateOne")
  /\ teacherRequests' = UpdateOne(teacherRequests, [email |-> reqs[s].args.email],
                          [status |-> "pending"])
  /\ reqs' = [reqs EXCEPT ![s] = Done(@, 200, "Teacher request resubmitted for review")]
  /\ UNCHANGED <<server, prog, users, classes, enroll, payments, intents, clock, nextClassId>>

ResubmitUpdateOne(s) ==
  /\ At(s, "resubmit", "updateOne")
  /\ teacherRequests' = UpdateOne(teacherRequests, [email |-> reqs[s].args.email],
                          [status |-> "pending", requestedAt |-> reqs[s].loc.requestedAt])
  /\ reqs' = [reqs EXCEPT ![s] = Done(@, 200, "Teacher request resubmitted for review")]
  /\ UNCHANGED <<server, prog, users, classes, enroll, payments, intents, clock, nextClassId>>

(* PATCH /api/users/approve-teacher/:email *)
StartApprove(s, hEmail, hRole, email) ==
  /\ Free(s)
  /\ LET user == mockAuth(hEmail, hRole)
     IN reqs' = [Waiting EXCEPT ![s] =
          IF ~requireAdmin(user)
            THEN Rejected("approve", 403, "Admins only")
            ELSE NewReq("approve", "findOne", [email |-> email])]
  /\ UNCHANGED <<server, prog, users, teacherRequests, classes, enroll, payments, intents,
                 clock, nextClassId>>

ApproveFindOne_NoCheck(s) ==
  /\ At(s, "approve", "findOne")
  /\ reqs' = [reqs EXCEPT ![s] = Goto(@, "setRole")]
  /\ UNCHANGED <<server, prog, users, teacherRequests, classes, enroll, payments, intents,
                 clock, nextClassId>>

ApproveFindOne(s) ==
  /\ At(s, "approve", "findOne")
  /\ reqs' = [reqs EXCEPT ![s] =
       IF ByEmailPending(teacherRequests, reqs[s].args.email) = 0
         THEN Done(@, 404, "No pending request found for this user")
         ELSE Goto(@, "setRole")]
  /\ UNCHANGED <<server, prog, users, teacherRequests, classes, enroll, payments, intents,
                 clock, nextClassId>>

ApproveSetRole_NoWrite(s) ==
  /\ At(s, "approve", "setRole")
  /\ reqs' = [reqs EXCEPT ![s] = GotoWith(@, "setStatus", [approvedAt |-> clock])]
  /\ UNCHANGED <<server, prog, users, teacherRequests, classes, enroll, payments, intents,
                 clock, nextClassId>>

ApproveSetRole(s) ==
  /\ At(s, "approve", "setRole")
  /\ users' = UpdateOne(users, [email |-> reqs[s].args.email], [role |-> "teacher"])
  /\ reqs' = [reqs EXCEPT ![s] = GotoWith(@, "setStatus", [approvedAt |-> clock])]
  /\ UNCHANGED <<server, prog, teacherRequests, classes, enroll, payments, intents,
                 clock, nextClassId>>

ApproveSetStatus(s) ==
  /\ At(s, "approve", "setStatus")
  /\ teacherRequests' = UpdateOne(teacherRequests, [email |-> reqs[s].args.email],
                          [status |-> "approved", approvedAt |-> reqs[s].loc.approvedAt])
  /\ reqs' = [reqs EXCEPT ![s] =
                Done(@, 200, "Teacher request approved and user role updated")]
  /\ UNCHANGED <<server, prog, users, classes, enroll, payments, intents, clock, nextClassId>>

(* PATCH /api/users/deny-teacher/:email *)
StartDeny(s, hEmail, hRole, email) ==
  /\ Free(s)
  /\ LET user == mockAuth(hEmail, hRole)
     IN reqs' = [Waiting EXCEPT ![s] =
          IF ~requireAdmin(user)
            THEN Rejected("deny", 403, "Admins only")
            ELSE NewReq("deny", "findOne", [email |-> email])]
  /\ UNCHANGED <<server, prog, users, teacherRequests, classes, enroll, payments, intents,
                 clock, nextClassId>>

DenyFindOne(s) ==
  /\ At(s, "deny", "findOne")
  /\ reqs' = [reqs EXCEPT ![s] =
       IF ByEmailPending(teacherRequests, reqs[s].args.email) = 0
         THEN Done(@, 404, "No pending request found for this user")
         ELSE GotoWith(@, "setStatus", [rejectedAt |-> clock])]
  /\ UNCHANGED <<server, prog, users, teacherRequests, classes, enroll, payments, intents,
                 clock, nextClassId>>

DenySetStatus(s) ==
  /\ At(s, "deny", "setStatus")
  /\ teacherRequests' = UpdateOne(teacherRequests, [email |-> reqs[s].args.email],
                          [status |-> "rejected", rejectedAt |-> reqs[s].loc.rejectedAt])
  /\ reqs' = [reqs EXCEPT ![s] = Done(@, 200, "Teacher request denied")]
  /\ UNCHANGED <<server, prog, users, classes, enroll, payments, intents, clock, nextClassId>>

(* the wall clock read by new Date() *)
Tick ==
  /\ clock < MaxClock
  /\ clock' = clock + 1
  /\ UNCHANGED <<server, prog, users, teacherRequests, classes, enroll, payments, intents,
                 reqs, nextClassId>>

---------------------------------------------------------------------------
(* The store is empty and no request is in flight when the server starts. *)

(* the process once run() has connected and app.listen has been called *)
Listening == [phase |-> "listening", conn |-> "open"]

InitStore ==
  /\ server = Listening
  /\ users = << >>
  /\ teacherRequests = << >>
  /\ classes = << >>
  /\ enroll = << >>
  /\ payments = << >>
  /\ intents = << >>
  /\ reqs = [s \in Slots |-> IdleReq]
  /\ clock = 1
  /\ nextClassId = 1

(* The teacher-request workflow of the first program of part_000 *)
InitTeacher == prog = "p0" /\ InitStore

NextTeacher ==
  \/ \E s \in Slots, body \in UserBodies : StartCreateUser(s, body)
  \/ \E s \in Slots : CreateUserFindOne(s)
  \/ \E s \in Slots : CreateUserInsertOne(s)
  \/ \E s \in Slots, e \in HeaderEmails, r \in UserRoles, body \in TeacherBodies :
       StartRequestTeacher(s, e, r, body)
  \/ \E s \in Slots : RequestTeacherFindUser(s)
  \/ \E s \in Slots : RequestTeacherFindRequest(s)
  \/ \E s \in Slots : RequestTeacherWrite(s)
  \/ \E s \in Slots, e \in HeaderEmails, r \in UserRoles : StartResubmit(s, e, r)
  \/ \E s \in Slots : ResubmitFindOne(s)
  \/ \E s \in Slots : ResubmitUpdateOne(s)
  \/ \E s \in Slots, e \in AdminEmails, r \in HeaderRoles, t \in Emails :
       StartApprove(s, e, r, t)
  \/ \E s \in Slots : ApproveFindOne(s)
  \/ \E s \in Slots : ApproveSetRole(s)
  \/ \E s \in Slots : ApproveSetStatus(s)
  \/ \E s \in Slots, e \in AdminEmails, r \in HeaderRoles, t \in Emails :
       StartDeny(s, e, r, t)
  \/ \E s \in Slots : DenyFindOne(s)
  \/ \E s \in Slots : DenySetStatus(s)

SpecTeacher == InitTeacher /\ [][NextTeacher]_vars

(* The same workflow when user records can disappear from the store behind  *)
(* the server's back (section 4.2: "the User record vanished between        *)
(* request creation and approval")                                          *)
UserVanishes(e) ==
  /\ ByEmail(users, e) # 0
  /\ users' = DeleteOne(users, [email |-> e])
  /\ UNCHANGED <<server, prog, teacherRequests, classes, enroll, payments, intents,
                 reqs, clock, nextClassId>>

NextTeacherVanish ==
  \/ \E s \in Slots, body \in UserBodies : StartCreateUser(s, body)
  \/ \E s \in Slots : CreateUserFindOne(s)
  \/ \E s \in Slots : CreateUserInsertOne(s)
  \/ \E s \in Slots, e \in HeaderEmails, r \in UserRoles, body \in TeacherBodies :
       StartRequestTeacher(s, e, r, body)
  \/ \E s \in Slots : RequestTeacherFindUser(s)
  \/ \E s \in Slots : RequestTeacherFindRequest(s)
  \/ \E s \in Slots : RequestTeacherWrite(s)
  \/ \E s \in Slots, e \in AdminEmails, r \in HeaderRoles, t \in Emails :
       StartApprove(s, e, r, t)
  \/ \E s \in Slots : ApproveFindOne(s)
  \/ \E s \in Slots : ApproveSetRole(s)
  \/ \E s \in Slots : ApproveSetStatus(s)
  \/ \E e \in Emails : UserVanishes(e)

SpecTeacherVanish == InitTeacher /\ [][NextTeacherVanish]_vars

---------------------------------------------------------------------------
(* What a request reading the store sees for an email: findOne({email}) *)

UserRole(e) == IF ByEmail(users, e) = 0 THEN "none" ELSE users[ByEmail(users, e)].role

RequestStatus(e) ==
  IF ByEmail(teacherRequests, e) = 0 THEN "none"
  ELSE teacherRequests[ByEmail(teacherRequests, e)].status

(* C1: in every state that another request can observe, a user holds role   *)
(* 'teacher' exactly when that user's teacher request is 'approved': the    *)
(* role and the status change together, under every interleaving of         *)
(* approve with deny, apply and resubmit.                                   *)
C1_RoleAndStatusTogether ==
  \A e \in Emails : (UserRole(e) = "teacher") <=> (RequestStatus(e) = "approved")

(* C4: whenever a teacher request is 'approved', the user record with its   *)
(* email has role 'teacher'; 'approved' with role 'student' (or no user) is *)
(* never observable, also between the two writes of the approve handler.    *)
C4_ApprovedImpliesTeacher ==
  \A i \in 1..Len(teacherRequests) :
    teacherRequests[i].status = "approved" => UserRole(teacherRequests[i].email) = "teacher"

C4_Witness ==
  \E i \in 1..Len(teacherRequests) :
    /\ teacherRequests[i].status = "approved"
    /\ \E s \in Slots : reqs[s].op = "approve" /\ reqs[s].resp.status = 200

(* C5: when the approve handler comes to promote a user whose record does   *)
(* not exist, it answers 404 and leaves the teacher requests as they are.   *)
C5_ApproveWithoutUserFails ==
  [][\A s \in Slots :
       (At(s, "approve", "setRole") /\ reqs'[s] # reqs[s]
          /\ ByEmail(users, reqs[s].args.email) = 0)
       => (reqs'[s].pc = "done" /\ reqs'[s].resp.status = 404)]_vars

---------------------------------------------------------------------------
(* Class routes (index.js, the second program of part_000, part_001,        *)
(* part_002)                                                                *)

(* a caller: the x-user-email and x-user-role headers of a request *)
Callers ==
  { [email |-> "a@x", role |-> "teacher"], [email |-> "b@x", role |-> "student"],
    [email |-> "admin@x", role |-> "admin"], [email |-> Undef, role |-> Undef] }
Creators == {c \in Callers : c.role # "admin"}

(* JSON numbers are written as strings; "0" is the number 0 *)
ValidBody ==
  [title |-> "T1", price |-> "20", description |-> "d", image |-> "i",
   status |-> Undef, email |-> Undef]

ClassBodies ==
  { ValidBody,
    [ValidBody EXCEPT !.status = "approved"],
    [ValidBody EXCEPT !.email = "b@x"],
    [ValidBody EXCEPT !.title = Undef],
    [ValidBody EXCEPT !.price = "0"],
    [ValidBody EXCEPT !.description = ""],
    [ValidBody EXCEPT !.image = Undef] }

NoBody ==
  [title |-> Undef, price |-> Undef, description |-> Undef, image |-> Undef,
   status |-> Undef, email |-> Undef]

UpdateBodies ==
  { [NoBody EXCEPT !.title = "T2", !.price = "0", !.status = "approved", !.email = "b@x"],
    [NoBody EXCEPT !.price = "0"] }

StatusValues == {"pending", "approved", "rejected"}
StatusInputs == StatusValues \cup {"archived", Undef}

(* class ids as the client sends them: 0 is a malformed id, MaxClasses + 1  *)
(* a well-formed id that no class has                                       *)
IdTokens == 0..(MaxClasses + 1)
ObjectIdIsValid(id) == id >= 1

ClassIdx(id) == FirstIdx(classes, [_id |-> id])

canModify_AnyUser(user, doc) == user.role = "admin" \/ Truthy(user.email)

(* the owner-or-admin check of PUT and DELETE /classes/:id *)
canModify(user, doc) == user.role = "admin" \/ user.email = doc.email

NewClass_KeepStatus(body, user) ==
  IF Handler("createClass") = "bare"
    THEN [body EXCEPT !.status = OrElse(body.status, "pending")]
    ELSE [body EXCEPT !.status = OrElse(body.status, "pending"), !.email = user.email]

(* newClass after the handler's assignments *)
NewClass(body, user) ==
  IF Handler("createClass") = "bare"
    THEN [body EXCEPT !.status = "pending"]
    ELSE [body EXCEPT !.status = "pending", !.email = user.email]

MissingRequired(body) ==
  ~Truthy(body.title) \/ ~Truthy(body.price) \/ ~Truthy(body.description)
    \/ ~Truthy(body.image)

(* POST /classes *)
StartCreateClass(s, caller, body) ==
  /\ Free(s)
  /\ Handler("createClass") # "none"
  /\ LET user == mockAuth(caller.email, caller.role)
         args == [caller |-> caller, body |-> body, doc |-> NewClass(body, user)]
     IN reqs' = [Waiting EXCEPT ![s] =
          IF Handler("createClass") # "bare" /\ MissingRequired(body)
            THEN Rejected("createClass", 400,
                   IF Handler("createClass") = "part2" THEN "Missing required class fields"
                   ELSE "Missing required fields")
            ELSE NewReq("createClass", "insertOne", args)]
  /\ UNCHANGED <<server, prog, users, teacherRequests, classes, enroll, payments, intents,
                 clock, nextClassId>>

CreateClassInsertOne(s) ==
  /\ At(s, "createClass", "insertOne")
  /\ nextClassId <= MaxClasses
  /\ classes' = InsertOne(classes, ApplySet(reqs[s].args.doc, [_id |-> nextClassId]))
  /\ nextClassId' = nextClassId + 1
  /\ reqs' = [reqs EXCEPT ![s] =
       DoneKeep([@ EXCEPT !.loc = [insertedId |-> nextClassId]],
                IF Handler("createClass") = "bare" THEN 200 ELSE 201,
                IF Handler("createClass") = "part2" THEN "Class created" ELSE "Class added")]
  /\ UNCHANGED <<server, prog, users, teacherRequests, enroll, payments, intents, clock>>

AllowedFields == {"title", "price", "description", "image"}
AllFields == AllowedFields \cup {"status", "email"}

UpdateFields_Any(body) == [k \in {f \in AllFields : Truthy(body[f])} |-> body[k]]

(* updateFields: the allowed fields the body gives a truthy value *)
UpdateFields(body) == [k \in {f \in AllowedFields : Truthy(body[f])} |-> body[k]]

(* the fields a JSON body carries *)
BodyFields(body) == [k \in {f \in AllFields : body[f] # Undef} |-> body[k]]

(* PUT /classes/:id *)
StartPut(s, caller, id, body) ==
  /\ Free(s)
  /\ Handler("put") # "none"
  /\ LET args == [user |-> mockAuth(caller.email, caller.role), id |-> id, body |-> body]
     IN reqs' = [Waiting EXCEPT ![s] =
          IF Handler("put") = "raw"
            THEN IF ObjectIdIsValid(id)
                   THEN GotoWith(NewReq("put", "updateOne", args), "updateOne",
                                 [updateFields |-> BodyFields(body)])
                   ELSE Thrown("put", args)
          ELSE IF ~ObjectIdIsValid(id) THEN Rejected("put", 400, "Invalid ID")
          ELSE IF Handler("put") = "part2" /\ DOMAIN UpdateFields(body) = {}
            THEN Rejected("put", 400, "No valid fields to update")
          ELSE NewReq("put", "findOne", args)]
  /\ UNCHANGED <<server, prog, users, teacherRequests, classes, enroll, payments, intents,
                 clock, nextClassId>>

PutFindOne(s) ==
  /\ At(s, "put", "findOne")
  /\ reqs' = [reqs EXCEPT ![s] =
       IF ClassIdx(reqs[s].args.id) = 0 THEN Done(@, 404, "Class not found")
       ELSE IF ~canModify(reqs[s].args.user, classes[ClassIdx(reqs[s].args.id)])
         THEN Done(@, 403, "Unauthorized")
       ELSE GotoWith(@, "updateOne", [updateFields |-> UpdateFields(reqs[s].args.body)])]
  /\ UNCHANGED <<server, prog, users, teacherRequests, classes, enroll, payments, intents,
                 clock, nextClassId>>

(* an empty $set changes nothing *)
PutUpdateOne(s) ==
  /\ At(s, "put", "updateOne")
  /\ classes' = UpdateOne(classes, [_id |-> reqs[s].args.id], reqs[s].loc.updateFields)
  /\ reqs' = [reqs EXCEPT ![s] = Done(@, 200, "Class updated")]
  /\ UNCHANGED <<server, prog, users, teacherRequests, enroll, payments, intents, clock,
                 nextClassId>>

(* DELETE /classes/:id *)
StartDelete(s, caller, id) ==
  /\ Free(s)
  /\ Handler("delete") # "none"
  /\ LET args == [user |-> mockAuth(caller.email, caller.role), id |-> id]
     IN reqs' = [Waiting EXCEPT ![s] =
          IF Handler("delete") = "raw"
            THEN IF ObjectIdIsValid(id) THEN NewReq("delete", "deleteOne", args)
                 ELSE Thrown("delete", args)
          ELSE IF ~ObjectIdIsValid(id) THEN Rejected("delete", 400, "Invalid ID")
          ELSE NewReq("delete", "findOne", args)]
  /\ UNCHANGED <<server, prog, users, teacherRequests, classes, enroll, payments, intents,
                 clock, nextClassId>>

DeleteFindOne(s) ==
  /\ At(s, "delete", "findOne")
  /\ reqs' = [reqs EXCEPT ![s] =
       IF ClassIdx(reqs[s].args.id) = 0 THEN Done(@, 404, "Class not found")
       ELSE IF ~canModify(reqs[s].args.user, classes[ClassIdx(reqs[s].args.id)])
         THEN Done(@, 403, "Unauthorized")
       ELSE Goto(@, "deleteOne")]
  /\ UNCHANGED <<server, prog, users, teacherRequests, classes, enroll, payments, intents,
                 clock, nextClassId>>

DeleteDeleteOne(s) ==
  /\ At(s, "delete", "deleteOne")
  /\ classes' = DeleteOne(classes, [_id |-> reqs[s].args.id])
  /\ reqs' = [reqs EXCEPT ![s] =
       IF Handler("delete") = "part2" /\ ClassIdx(reqs[s].args.id) = 0
         THEN Done(@, 404, "Class not found or already deleted")
         ELSE Done(@, 200, "Class deleted")]
  /\ UNCHANGED <<server, prog, users, teacherRequests, enroll, payments, intents, clock,
                 nextClassId>>

SetStatusArrival_AnyStatus(caller, id, status) ==
  LET args == [user |-> mockAuth(caller.email, caller.role), id |-> id,
               status |-> status]
  IN IF ~requireAdmin(args.user)
       THEN Rejected("setStatus", 403, "Admins only")
     ELSE IF ~ObjectIdIsValid(id)
       THEN Rejected("setStatus", 400, "Invalid ID")
     ELSE NewReq("setStatus", "updateOne", args)

(* PATCH /classes/:id/status up to its first storage call *)
SetStatusArrival(caller, id, status) ==
  LET args == [user |-> mockAuth(caller.email, caller.role), id |-> id,
               status |-> status]
  IN IF ~requireAdmin(args.user)
       THEN Rejected("setStatus", 403, "Admins only")
     ELSE IF Handler("setStatus") = "raw"
       THEN IF ObjectIdIsValid(id) THEN NewReq("setStatus", "updateOne", args)
            ELSE Thrown("setStatus", args)
     ELSE IF ~ObjectIdIsValid(id)
       THEN Rejected("setStatus", 400, "Invalid ID")
     ELSE IF status \notin StatusValues
       THEN Rejected("setStatus", 400, "Invalid status value")
     ELSE IF Handler("setStatus") = "part2" THEN NewReq("setStatus", "findOne", args)
     ELSE NewReq("setStatus", "updateOne", args)

StartSetStatus(s, caller, id, status) ==
  /\ Free(s)
  /\ Handler("setStatus") # "none"
  /\ reqs' = [Waiting EXCEPT ![s] = SetStatusArrival(caller, id, status)]
  /\ UNCHANGED <<server, prog, users, teacherRequests, classes, enroll, payments, intents,
                 clock, nextClassId>>

(* part_002 only *)
SetStatusFindOne(s) ==
  /\ At(s, "setStatus", "findOne")
  /\ reqs' = [reqs EXCEPT ![s] =
       IF ClassIdx(reqs[s].args.id) = 0 THEN Done(@, 404, "Class not found")
       ELSE Goto(@, "updateOne")]
  /\ UNCHANGED <<server, prog, users, teacherRequests, classes, enroll, payments, intents,
                 clock, nextClassId>>

(* an undefined status is stored as null *)
SetStatusUpdateOne(s) ==
  /\ At(s, "setStatus", "updateOne")
  /\ classes' = UpdateOne(classes, [_id |-> reqs[s].args.id],
                          [status |-> OrElse(reqs[s].args.status, Null)])
  /\ reqs' = [reqs EXCEPT ![s] = Done(@, 200, "Status updated")]
  /\ UNCHANGED <<server, prog, users, teacherRequests, enroll, payments, intents, clock,
                 nextClassId>>

(* Class routes, one request after the other *)
ClassPrograms == {"index", "p1", "part1", "part2"}

InitClass == prog \in ClassPrograms /\ InitStore

NextClass ==
  \/ \E s \in Slots, c \in Creators, body \in ClassBodies :
       Quiet /\ StartCreateClass(s, c, body)
  \/ \E s \in Slots, c \in Callers, id \in IdTokens, body \in UpdateBodies :
       Quiet /\ StartPut(s, c, id, body)
  \/ \E s \in Slots, c \in Callers, id \in IdTokens : Quiet /\ StartDelete(s, c, id)
  \/ \E s \in Slots, c \in Callers, id \in IdTokens, st \in StatusInputs :
       Quiet /\ StartSetStatus(s, c, id, st)
  \/ \E s \in Slots : CreateClassInsertOne(s)
  \/ \E s \in Slots : PutFindOne(s)
  \/ \E s \in Slots : PutUpdateOne(s)
  \/ \E s \in Slots : DeleteFindOne(s)
  \/ \E s \in Slots : DeleteDeleteOne(s)
  \/ \E s \in Slots : SetStatusFindOne(s)
  \/ \E s \in Slots : SetStatusUpdateOne(s)

SpecClass == InitClass /\ [][NextClass]_vars

---------------------------------------------------------------------------
(* the identity a request carries *)
Identity(caller) == mockAuth(caller.email, caller.role)

(* C6: the class a POST /classes stores has the caller's identity email as  *)
(* its owner email, whatever email the body carries.                        *)
C6_OwnerIsCaller ==
  [][\A s \in Slots :
       (At(s, "createClass", "insertOne") /\ reqs'[s].pc = "done")
       => classes'[Len(classes')].email = Identity(reqs[s].args.caller).email]_vars

(* C7: a class that enters the store enters it with status 'pending',       *)
(* whatever status the body of POST /classes carries.                       *)
C7_CreatedPending ==
  [][\A i \in 1..Len(classes') :
       ClassIdx(classes'[i]._id) = 0 => classes'[i].status = "pending"]_vars

C7_Witness ==
  \E s \in Slots :
    /\ reqs[s].op = "createClass" /\ reqs[s].resp.status \in {200, 201}
    /\ reqs[s].args.body.status = "approved"
    /\ ClassIdx(reqs[s].loc.insertedId) # 0
    /\ classes[ClassIdx(reqs[s].loc.insertedId)].status = "pending"

(* C8: a PUT or DELETE /classes/:id from a caller who is neither admin nor  *)
(* the owner of the class is answered 403 and changes no class.             *)
C8_OnlyOwnerOrAdmin ==
  [][\A s \in Slots :
       ( /\ reqs[s].op \in {"put", "delete"}
         /\ reqs[s].pc \notin {"done", "hung"}
         /\ reqs'[s] # reqs[s]
         /\ ClassIdx(reqs[s].args.id) # 0
         /\ reqs[s].args.user.role # "admin"
         /\ reqs[s].args.user.email # classes[ClassIdx(reqs[s].args.id)].email )
       => (classes' = classes /\ reqs'[s].resp.status = 403)]_vars

C8_Witness ==
  \E s \in Slots :
    /\ reqs[s].op \in {"put", "delete"} /\ reqs[s].resp.status = 403
    /\ \E i \in 1..Len(classes) : classes[i].email = "a@x"

(* C9: a PATCH /classes/:id/status from a caller whose role is not 'admin'  *)
(* is answered 403 before any storage call and changes no class; when an    *)
(* admin's update to 'approved' is applied to a stored class, the class     *)
(* reads 'approved'.                                                        *)
C9_StatusAdminOnly ==
  /\ [](Handler("setStatus") # "none" =>
          \A c \in Callers, id \in IdTokens, st \in StatusInputs :
            Identity(c).role # "admin"
            => ( /\ SetStatusArrival(c, id, st).pc = "done"
                 /\ SetStatusArrival(c, id, st).resp.status = 403 ))
  /\ [](\A s \in Slots :
          (reqs[s].op = "setStatus" /\ ~Idle(s)) => reqs[s].args.user.role = "admin")
  /\ [][ /\ \A s \in Slots :
             (Idle(s) /\ reqs'[s].op = "setStatus") => classes' = classes
        /\ \A s \in Slots :
             ( /\ At(s, "setStatus", "updateOne") /\ reqs'[s].pc = "done"
               /\ reqs[s].args.status = "approved" /\ ClassIdx(reqs[s].args.id) # 0 )
             => ( /\ reqs'[s].resp.status = 200
                  /\ classes'[ClassIdx(reqs[s].args.id)].status = "approved"
                  /\ classes'[ClassIdx(reqs[s].args.id)]._id = reqs[s].args.id ) ]_vars

C9_Witness ==
  \E s \in Slots :
    /\ reqs[s].op = "setStatus" /\ reqs[s].resp.status = 403
    /\ \E i \in 1..Len(classes) : classes[i].status = "pending"

(* C10: a status update whose status is not one of pending, approved,       *)
(* rejected (a missing status included) is answered 400 (403 for a caller   *)
(* who is not admin) before any storage call, and changes no class.         *)
C10_InvalidStatusRejected ==
  /\ [](Handler("setStatus") # "none" =>
          \A c \in Callers, id \in IdTokens, st \in StatusInputs \ StatusValues :
            /\ SetStatusArrival(c, id, st).pc = "done"
            /\ SetStatusArrival(c, id, st).resp.status =
                 (IF Identity(c).role = "admin" THEN 400 ELSE 403))
  /\ [](\A s \in Slots :
          (reqs[s].op = "setStatus" /\ ~Idle(s)) => reqs[s].args.status \in StatusValues)
  /\ [][\A s \in Slots :
          (reqs'[s].op = "setStatus" /\ reqs'[s] # reqs[s] /\ classes' # classes)
          => reqs[s].args.status \in StatusValues]_vars

C10_Witness ==
  \E s \in Slots :
    /\ reqs[s].op = "setStatus"
    /\ reqs[s].resp = [status |-> 400, msg |-> "Invalid status value"]
    /\ classes # << >>

---------------------------------------------------------------------------
(* Enrollment and payment routes *)

(* a class id in a stored document: an ObjectId, or the string the body had *)
Oid(id) == [kind |-> "oid", id |-> id]
Str(id) == [kind |-> "str", id |-> id]

(* a body field that is absent *)
NoId == -1
(* class ids as the client sends them: 0 is a malformed id, the others are   *)
(* well-formed and name a class once it is created                          *)
EnrollIds == 0..MaxClasses
BodyIds == EnrollIds \cup {NoId}
IntentTokens == {NoId} \cup 1..(MaxIntents + 1)
StudentEmails == {"a@x", Undef}

(* the _id the driver gives an inserted document *)
NewId(coll) ==
  CHOOSE n \in 1..(Len(coll) + 1) : \A i \in 1..Len(coll) : coll[i]._id # n

EnrollFilter(r) == [classId |-> Oid(r.args.id), email |-> r.args.email]

(* POST /enroll/:classId *)
StartEnroll(s, hEmail, id) ==
  /\ Free(s)
  /\ Handler("enroll") # "none"
  /\ LET email == mockAuth(hEmail, Undef).email
     IN reqs' = [Waiting EXCEPT ![s] =
          IF ~Truthy(email) THEN Rejected("enroll", 400, "User email missing")
          ELSE IF ~ObjectIdIsValid(id) THEN Rejected("enroll", 400, "Invalid class ID")
          ELSE NewReq("enroll", "findClass", [email |-> email, id |-> id])]
  /\ UNCHANGED <<server, prog, users, teacherRequests, classes, enroll, payments, intents,
                 clock, nextClassId>>

EnrollFindClass(s) ==
  /\ At(s, "enroll", "findClass")
  /\ reqs' = [reqs EXCEPT ![s] =
       IF ClassIdx(reqs[s].args.id) = 0 THEN Done(@, 404, "Class not found")
       ELSE Goto(@, "findExisting")]
  /\ UNCHANGED <<server, prog, users, teacherRequests, classes, enroll, payments, intents,
                 clock, nextClassId>>

EnrollFindExisting_NoCheck(s) ==
  /\ At(s, "enroll", "findExisting")
  /\ reqs' = [reqs EXCEPT ![s] = Goto(@, "insertOne")]
  /\ UNCHANGED <<server, prog, users, teacherRequests, classes, enroll, payments, intents,
                 clock, nextClassId>>

EnrollFindExisting(s) ==
  /\ At(s, "enroll", "findExisting")
  /\ reqs' = [reqs EXCEPT ![s] =
       IF FirstIdx(enroll, EnrollFilter(reqs[s])) # 0
         THEN Done(@, 400, "Already enrolled in this class")
         ELSE Goto(@, "insertOne")]
  /\ UNCHANGED <<server, prog, users, teacherRequests, classes, enroll, payments, intents,
                 clock, nextClassId>>

EnrollInsertOne(s) ==
  /\ At(s, "enroll", "insertOne")
  /\ Len(enroll) < MaxEnroll
  /\ enroll' = InsertOne(enroll,
       [_id |-> NewId(enroll), classId |-> Oid(reqs[s].args.id),
        email |-> reqs[s].args.email, enrolledAt |-> clock])
  /\ reqs' = [reqs EXCEPT ![s] =
       DoneWith(@, 201, "Enrolled successfully", [enrollmentId |-> NewId(enroll)])]
  /\ UNCHANGED <<server, prog, users, teacherRequests, classes, payments, intents, clock,
                 nextClassId>>

(* DELETE /enroll/:classId *)
StartCancel(s, hEmail, id) ==
  /\ Free(s)
  /\ Handler("cancel") # "none"
  /\ LET email == mockAuth(hEmail, Undef).email
     IN reqs' = [Waiting EXCEPT ![s] =
          IF ~Truthy(email) THEN Rejected("cancel", 400, "User email missing")
          ELSE IF ~ObjectIdIsValid(id) THEN Rejected("cancel", 400, "Invalid class ID")
          ELSE NewReq("cancel", "deleteOne", [email |-> email, id |-> id])]
  /\ UNCHANGED <<server, prog, users, teacherRequests, classes, enroll, payments, intents,
                 clock, nextClassId>>

CancelDeleteOne(s) ==
  /\ At(s, "cancel", "deleteOne")
  /\ enroll' = DeleteOne(enroll, EnrollFilter(reqs[s]))
  /\ reqs' = [reqs EXCEPT ![s] =
       IF FirstIdx(enroll, EnrollFilter(reqs[s])) = 0
         THEN Done(@, 404, "Enrollment not found or already cancelled")
         ELSE Done(@, 200, "Enrollment cancelled successfully")]
  /\ UNCHANGED <<server, prog, users, teacherRequests, classes, payments, intents, clock,
                 nextClassId>>

(* POST /api/payments *)
PaymentBodies ==
  { [classId |-> i, email |-> e, amount |-> "10", paymentId |-> "pay1"] :
      i \in BodyIds, e \in StudentEmails }

StartPayments(s, body) ==
  /\ Free(s)
  /\ Handler("payments") # "none"
  /\ reqs' = [Waiting EXCEPT ![s] =
       IF ~Truthy(body.email) \/ body.classId = NoId \/ ~Truthy(body.amount)
            \/ ~Truthy(body.paymentId)
         THEN Rejected("payments", 400,
                IF Handler("payments") = "p0" THEN "Missing required fields"
                ELSE "Missing payment info")
       ELSE IF ~ObjectIdIsValid(body.classId)
         THEN (IF Handler("payments") = "p0" THEN Thrown("payments", NoArgs)
               ELSE Rejected("payments", 500, "Server error"))
       ELSE NewReq("payments", "insertPayment",
                   [email |-> body.email, id |-> body.classId, amount |-> body.amount,
                    paymentId |-> body.paymentId])]
  /\ UNCHANGED <<server, prog, users, teacherRequests, classes, enroll, payments, intents,
                 clock, nextClassId>>

PaymentsInsertPayment(s) ==
  /\ At(s, "payments", "insertPayment")
  /\ Len(payments) < MaxPayments
  /\ payments' = InsertOne(payments,
       [_id |-> NewId(payments), classId |-> Oid(reqs[s].args.id),
        email |-> reqs[s].args.email, amount |-> reqs[s].args.amount,
        paymentId |-> reqs[s].args.paymentId, paidAt |-> clock])
  /\ reqs' = [reqs EXCEPT ![s] =
       IF Handler("payments") = "p0" THEN Goto(@, "findEnroll")
       ELSE Done(@, 201, "Payment info saved")]
  /\ UNCHANGED <<server, prog, users, teacherRequests, classes, enroll, intents, clock,
                 nextClassId>>

PaymentsFindEnroll(s) ==
  /\ At(s, "payments", "findEnroll")
  /\ reqs' = [reqs EXCEPT ![s] =
       IF FirstIdx(enroll, EnrollFilter(reqs[s])) # 0
         THEN Done(@, 200, "Payment and enrollment saved successfully")
         ELSE Goto(@, "insertEnroll")]
  /\ UNCHANGED <<server, prog, users, teacherRequests, classes, enroll, payments, intents,
                 clock, nextClassId>>

PaymentsInsertEnroll(s) ==
  /\ At(s, "payments", "insertEnroll")
  /\ Len(enroll) < MaxEnroll
  /\ enroll' = InsertOne(enroll,
       [_id |-> NewId(enroll), classId |-> Oid(reqs[s].args.id),
        email |-> reqs[s].args.email, enrolledAt |-> clock])
  /\ reqs' = [reqs EXCEPT ![s] = Done(@, 200, "Payment and enrollment saved successfully")]
  /\ UNCHANGED <<server, prog, users, teacherRequests, classes, payments, intents, clock,
                 nextClassId>>

(* POST /create-payment-intent *)
StartCreateIntent(s, hEmail, id) ==
  /\ Free(s)
  /\ Handler("createIntent") # "none"
  /\ LET email == mockAuth(hEmail, Undef).email
     IN reqs' = [Waiting EXCEPT ![s] =
          IF Handler("createIntent") = "p0"
            THEN NewReq("createIntent", "create", [email |-> Undef, id |-> NoId])
          ELSE IF ~Truthy(email) THEN Rejected("createIntent", 400, "User email missing")
          ELSE IF id = NoId \/ ~ObjectIdIsValid(id)
            THEN Rejected("createIntent", 400, "Invalid class ID")
          ELSE NewReq("createIntent", "findClass", [email |-> email, id |-> id])]
  /\ UNCHANGED <<server, prog, users, teacherRequests, classes, enroll, payments, intents,
                 clock, nextClassId>>

CreateIntentFindClass(s) ==
  /\ At(s, "createIntent", "findClass")
  /\ reqs' = [reqs EXCEPT ![s] =
       IF ClassIdx(reqs[s].args.id) = 0 THEN Done(@, 404, "Class not found")
       ELSE Goto(@, "create")]
  /\ UNCHANGED <<server, prog, users, teacherRequests, classes, enroll, payments, intents,
                 clock, nextClassId>>

(* stripe.paymentIntents.create *)
CreateIntentCreate(s) ==
  /\ At(s, "createIntent", "create")
  /\ Len(intents) < MaxIntents
  /\ intents' = Append(intents,
       [id |-> Len(intents) + 1, status |-> "requires_payment_method",
        email |-> reqs[s].args.email, classId |-> reqs[s].args.id])
  /\ reqs' = [reqs EXCEPT ![s] = Done(@, 200, "clientSecret")]
  /\ UNCHANGED <<server, prog, users, teacherRequests, classes, enroll, payments, clock,
                 nextClassId>>

(* the customer pays: the payment processor marks the intent succeeded *)
IntentSucceeds(i) ==
  /\ i \in 1..Len(intents)
  /\ intents[i].status # "succeeded"
  /\ intents' = [intents EXCEPT ![i].status = "succeeded"]
  /\ UNCHANGED <<server, prog, users, teacherRequests, classes, enroll, payments, reqs, clock,
                 nextClassId>>

(* POST /confirm-enroll *)
StartConfirmEnroll(s, hEmail, id, paymentIntentId) ==
  /\ Free(s)
  /\ Handler("confirmEnroll") # "none"
  /\ LET email == mockAuth(hEmail, Undef).email
     IN reqs' = [Waiting EXCEPT ![s] =
          IF ~Truthy(email) \/ id = NoId \/ paymentIntentId = NoId
            THEN Rejected("confirmEnroll", 400, "Missing data")
          ELSE IF ~ObjectIdIsValid(id) THEN Rejected("confirmEnroll", 500, "Server error")
          ELSE NewReq("confirmEnroll", "findClass",
                      [email |-> email, id |-> id, paymentIntentId |-> paymentIntentId])]
  /\ UNCHANGED <<server, prog, users, teacherRequests, classes, enroll, payments, intents,
                 clock, nextClassId>>

ConfirmEnrollFindClass(s) ==
  /\ At(s, "confirmEnroll", "findClass")
  /\ reqs' = [reqs EXCEPT ![s] =
       IF ClassIdx(reqs[s].args.id) = 0 THEN Done(@, 404, "Class not found")
       ELSE Goto(@, "retrieve")]
  /\ UNCHANGED <<server, prog, users, teacherRequests, classes, enroll, payments, intents,
                 clock, nextClassId>>

ConfirmEnrollRetrieve_NoCheck(s) ==
  /\ At(s, "confirmEnroll", "retrieve")
  /\ reqs' = [reqs EXCEPT ![s] =
       IF reqs[s].args.paymentIntentId \notin 1..Len(intents)
         THEN Done(@, 500, "Server error")
       ELSE Goto(@, "findExisting")]
  /\ UNCHANGED <<server, prog, users, teacherRequests, classes, enroll, payments, intents,
                 clock, nextClassId>>

(* stripe.paymentIntents.retrieve throws for an id it does not know *)
ConfirmEnrollRetrieve(s) ==
  /\ At(s, "confirmEnroll", "retrieve")
  /\ reqs' = [reqs EXCEPT ![s] =
       IF reqs[s].args.paymentIntentId \notin 1..Len(intents)
         THEN Done(@, 500, "Server error")
       ELSE IF intents[reqs[s].args.paymentIntentId].status # "succeeded"
         THEN Done(@, 400, "Payment not completed")
       ELSE Goto(@, "findExisting")]
  /\ UNCHANGED <<server, prog, users, teacherRequests, classes, enroll, payments, intents,
                 clock, nextClassId>>

ConfirmEnrollFindExisting(s) ==
  /\ At(s, "confirmEnroll", "findExisting")
  /\ reqs' = [reqs EXCEPT ![s] =
       IF FirstIdx(enroll, EnrollFilter(reqs[s])) # 0
         THEN Done(@, 400, "Already enrolled in this class")
         ELSE Goto(@, "insertOne")]
  /\ UNCHANGED <<server, prog, users, teacherRequests, classes, enroll, payments, intents,
                 clock, nextClassId>>

ConfirmEnrollInsertOne(s) ==
  /\ At(s, "confirmEnroll", "insertOne")
  /\ Len(enroll) < MaxEnroll
  /\ enroll' = InsertOne(enroll,
       [_id |-> NewId(enroll), classId |-> Oid(reqs[s].args.id),
        email |-> reqs[s].args.email, enrolledAt |-> clock,
        paymentIntentId |-> reqs[s].args.paymentIntentId])
  /\ reqs' = [reqs EXCEPT ![s] =
       DoneWith(@, 201, "Enrolled after payment", [enrollmentId |-> NewId(enroll)])]
  /\ UNCHANGED <<server, prog, users, teacherRequests, classes, payments, intents, clock,
                 nextClassId>>

(* POST /payment-success: classId is stored as the body gave it, a string *)
PaymentSuccessBodies ==
  { [classId |-> i, email |-> e, paymentId |-> "pay1", amount |-> "10",
     classTitle |-> "T"] : i \in BodyIds, e \in StudentEmails }

StartPaymentSuccess(s, body) ==
  /\ Free(s)
  /\ Handler("paymentSuccess") # "none"
  /\ reqs' = [Waiting EXCEPT ![s] =
       IF body.classId = NoId \/ ~Truthy(body.email) \/ ~Truthy(body.paymentId)
         THEN Rejected("paymentSuccess", 400, "Missing data")
         ELSE NewReq("paymentSuccess", "insertPayment", body)]
  /\ UNCHANGED <<server, prog, users, teacherRequests, classes, enroll, payments, intents,
                 clock, nextClassId>>

PaymentSuccessInsertPayment(s) ==
  /\ At(s, "paymentSuccess", "insertPayment")
  /\ Len(payments) < MaxPayments
  /\ payments' = InsertOne(payments,
       [_id |-> NewId(payments), email |-> reqs[s].args.email,
        classId |-> Str(reqs[s].args.classId), paymentId |-> reqs[s].args.paymentId,
        amount |-> reqs[s].args.amount, classTitle |-> reqs[s].args.classTitle,
        date |-> clock])
  /\ reqs' = [reqs EXCEPT ![s] = Goto(@, "insertEnroll")]
  /\ UNCHANGED <<server, prog, users, teacherRequests, classes, enroll, intents, clock,
                 nextClassId>>

PaymentSuccessInsertEnroll(s) ==
  /\ At(s, "paymentSuccess", "insertEnroll")
  /\ Len(enroll) < MaxEnroll
  /\ enroll' = InsertOne(enroll,
       [_id |-> NewId(enroll), email |-> reqs[s].args.email,
        classId |-> Str(reqs[s].args.classId), classTitle |-> reqs[s].args.classTitle,
        enrolledAt |-> clock])
  /\ reqs' = [reqs EXCEPT ![s] = Done(@, 200, "success")]
  /\ UNCHANGED <<server, prog, users, teacherRequests, classes, payments, intents, clock,
                 nextClassId>>

(* Enrollment and payment routes, requests overlapping *)
EnrollPrograms == {"index", "p0", "p1"}
Teacher == [email |-> "a@x", role |-> "teacher"]

InitEnroll == prog \in EnrollPrograms /\ InitStore

NextEnroll ==
  \/ \E s \in Slots : StartCreateClass(s, Teacher, ValidBody)
  \/ \E s \in Slots : CreateClassInsertOne(s)
  \/ \E s \in Slots, e \in StudentEmails, id \in EnrollIds : StartEnroll(s, e, id)
  \/ \E s \in Slots : EnrollFindClass(s)
  \/ \E s \in Slots : EnrollFindExisting(s)
  \/ \E s \in Slots : EnrollInsertOne(s)
  \/ \E s \in Slots, body \in PaymentBodies : StartPayments(s, body)
  \/ \E s \in Slots : PaymentsInsertPayment(s)
  \/ \E s \in Slots : PaymentsFindEnroll(s)
  \/ \E s \in Slots : PaymentsInsertEnroll(s)
  \/ \E s \in Slots, e \in StudentEmails, id \in BodyIds : StartCreateIntent(s, e, id)
  \/ \E s \in Slots : CreateIntentFindClass(s)
  \/ \E s \in Slots : CreateIntentCreate(s)
  \/ \E i \in 1..MaxIntents : IntentSucceeds(i)
  \/ \E s \in Slots, e \in StudentEmails, id \in BodyIds, pi \in IntentTokens :
       StartConfirmEnroll(s, e, id, pi)
  \/ \E s \in Slots : ConfirmEnrollFindClass(s)
  \/ \E s \in Slots : ConfirmEnrollRetrieve(s)
  \/ \E s \in Slots : ConfirmEnrollFindExisting(s)
  \/ \E s \in Slots : ConfirmEnrollInsertOne(s)
  \/ \E s \in Slots, body \in PaymentSuccessBodies : StartPaymentSuccess(s, body)
  \/ \E s \in Slots : PaymentSuccessInsertPayment(s)
  \/ \E s \in Slots : PaymentSuccessInsertEnroll(s)

SpecEnroll == InitEnroll /\ [][NextEnroll]_vars

(* POST and DELETE /enroll/:classId, one request after the other *)
EnrollSeqPrograms == {"index", "part3"}

InitEnrollSeq == prog \in EnrollSeqPrograms /\ InitStore

NextEnrollSeq ==
  \/ \E s \in Slots : Quiet /\ StartCreateClass(s, Teacher, ValidBody)
  \/ \E s \in Slots : CreateClassInsertOne(s)
  \/ \E s \in Slots, e \in HeaderEmails, id \in EnrollIds : Quiet /\ StartEnroll(s, e, id)
  \/ \E s \in Slots : EnrollFindClass(s)
  \/ \E s \in Slots : EnrollFindExisting(s)
  \/ \E s \in Slots : EnrollInsertOne(s)
  \/ \E s \in Slots, e \in HeaderEmails, id \in EnrollIds : Quiet /\ StartCancel(s, e, id)
  \/ \E s \in Slots : CancelDeleteOne(s)

SpecEnrollSeq == InitEnrollSeq /\ [][NextEnrollSeq]_vars

(* how many enrollments the store holds for a stored class id and an email *)
EnrollCount(cid, e) == CountWhere(enroll, [classId |-> cid, email |-> e])
EnrollKeys == {[classId |-> enroll[i].classId, email |-> enroll[i].email] : i \in 1..Len(enroll)}

(* C2: the store never holds two enrollments of one email in one stored     *)
(* class (the class id read as the ObjectId or as the string the body       *)
(* gave), however the enrollment and payment requests interleave.           *)
C2_AtMostOneEnrollment ==
  \A i \in 1..Len(classes), e \in Emails :
    /\ EnrollCount(Oid(classes[i]._id), e) <= 1
    /\ EnrollCount(Str(classes[i]._id), e) <= 1

(* C3: enrolling twice in a row in an existing class: the call that finds   *)
(* no enrollment stores one and answers 201 with its id, the call that      *)
(* finds one answers 400 'Already enrolled in this class' and stores        *)
(* nothing; the pair never has more than one enrollment.                    *)
C3_SecondEnrollRejected ==
  /\ [](\A k \in EnrollKeys : EnrollCount(k.classId, k.email) <= 1)
  /\ [][\A s \in Slots :
          /\ ( /\ At(s, "enroll", "findExisting") /\ reqs'[s] # reqs[s]
               /\ EnrollCount(Oid(reqs[s].args.id), reqs[s].args.email) >= 1 )
             => ( /\ reqs'[s].pc = "done"
                  /\ reqs'[s].resp = [status |-> 400, msg |-> "Already enrolled in this class"]
                  /\ enroll' = enroll )
          /\ ( /\ At(s, "enroll", "findExisting") /\ reqs'[s] # reqs[s]
               /\ EnrollCount(Oid(reqs[s].args.id), reqs[s].args.email) = 0 )
             => reqs'[s].pc = "insertOne"
          /\ (At(s, "enroll", "insertOne") /\ reqs'[s] # reqs[s])
             => ( /\ EnrollCount(Oid(reqs[s].args.id), reqs[s].args.email) = 0
                  /\ reqs'[s].resp.status = 201
                  /\ \E i \in 1..Len(enroll') :
                       /\ enroll'[i]._id = reqs'[s].loc.enrollmentId
                       /\ enroll'[i].classId = Oid(reqs[s].args.id)
                       /\ enroll'[i].email = reqs[s].args.email ) ]_vars

C3_Witness ==
  /\ \E s \in Slots :
       /\ reqs[s].op = "enroll"
       /\ reqs[s].resp = [status |-> 400, msg |-> "Already enrolled in this class"]
  /\ \E k \in EnrollKeys : EnrollCount(k.classId, k.email) = 1

---------------------------------------------------------------------------
(* Teacher-request workflow, continued *)

(* the status changes a teacher request may make *)
StatusEdges ==
  { <<"pending", "approved">>, <<"pending", "rejected">>, <<"rejected", "pending">> }

(* C11: a stored teacher request changes status only along pending ->       *)
(* approved, pending -> rejected and rejected -> pending, a new request     *)
(* starts 'pending', and an approved request never changes status again.    *)
C11_StatusEdges ==
  [][\A i \in 1..Len(teacherRequests') :
       IF i <= Len(teacherRequests)
         THEN \/ teacherRequests'[i].status = teacherRequests[i].status
              \/ <<teacherRequests[i].status, teacherRequests'[i].status>> \in StatusEdges
         ELSE teacherRequests'[i].status = "pending"]_vars

(* C12: no email ever has two teacher requests with status 'pending', also  *)
(* when the same email applies in overlapping requests.                     *)
C12_AtMostOnePending ==
  \A e \in Emails : CountWhere(teacherRequests, [email |-> e, status |-> "pending"]) <= 1

(* C13: a resubmit request changes the status of a teacher request only     *)
(* when that request has status 'rejected'; when the caller's request is    *)
(* 'pending' or 'approved' or absent, the resubmit answers 400 and no       *)
(* teacher request changes.                                                 *)
C13_ResubmitOnlyFromRejected ==
  [][\A s \in Slots :
       /\ ( /\ At(s, "resubmit", "findOne") /\ reqs'[s] # reqs[s]
            /\ RequestStatus(reqs[s].args.email) # "rejected" )
          => ( /\ reqs'[s].pc = "done" /\ reqs'[s].resp.status = 400
               /\ teacherRequests' = teacherRequests )
       /\ (At(s, "resubmit", "updateOne") /\ reqs'[s] # reqs[s])
          => \A i \in 1..Len(teacherRequests) :
               teacherRequests'[i].status # teacherRequests[i].status
               => teacherRequests[i].status = "rejected"]_vars

(* C14: a user enters the store with role 'student'; a stored role changes  *)
(* only in the role write of an approve-teacher request, to 'teacher', and  *)
(* that request goes on to the role write only if its findOne found a       *)
(* pending teacher request for the email.                                   *)
C14_RoleChangesOnlyByApprove ==
  [][ /\ \A i \in 1..Len(users') :
           IF i > Len(users) THEN users'[i].role = "student"
           ELSE users'[i].role # users[i].role
                => ( /\ users'[i].role = "teacher"
                     /\ \E s \in Slots :
                          /\ At(s, "approve", "setRole") /\ reqs'[s] # reqs[s]
                          /\ reqs[s].args.email = users[i].email )
      /\ \A s \in Slots :
           (At(s, "approve", "findOne") /\ reqs'[s].pc = "setRole")
           => ByEmailPending(teacherRequests, reqs[s].args.email) # 0 ]_vars

C14_Witness ==
  /\ \E i \in 1..Len(users) : users[i].role = "teacher"
  /\ \E i \in 1..Len(users) : users[i].role = "student"
  /\ \E s \in Slots : reqs[s].op = "createUser" /\ reqs[s].resp.status = 201

(* The teacher-request workflow, one request after the other, the clock     *)
(* advancing between storage calls                                          *)
NextTeacherSeq ==
  \/ \E s \in Slots, body \in UserBodies : Quiet /\ StartCreateUser(s, body)
  \/ \E s \in Slots : CreateUserFindOne(s)
  \/ \E s \in Slots : CreateUserInsertOne(s)
  \/ \E s \in Slots, e \in HeaderEmails, r \in UserRoles, body \in TeacherBodies :
       Quiet /\ StartRequestTeacher(s, e, r, body)
  \/ \E s \in Slots : RequestTeacherFindUser(s)
  \/ \E s \in Slots : RequestTeacherFindRequest(s)
  \/ \E s \in Slots : RequestTeacherWrite(s)
  \/ \E s \in Slots, e \in HeaderEmails, r \in UserRoles : Quiet /\ StartResubmit(s, e, r)
  \/ \E s \in Slots : ResubmitFindOne(s)
  \/ \E s \in Slots : ResubmitUpdateOne(s)
  \/ \E s \in Slots, e \in AdminEmails, r \in HeaderRoles, t \in Emails :
       Quiet /\ StartApprove(s, e, r, t)
  \/ \E s \in Slots : ApproveFindOne(s)
  \/ \E s \in Slots : ApproveSetRole(s)
  \/ \E s \in Slots : ApproveSetStatus(s)
  \/ \E s \in Slots, e \in AdminEmails, r \in HeaderRoles, t \in Emails :
       Quiet /\ StartDeny(s, e, r, t)
  \/ \E s \in Slots : DenyFindOne(s)
  \/ \E s \in Slots : DenySetStatus(s)
  \/ Tick

SpecTeacherSeq == InitTeacher /\ [][NextTeacherSeq]_vars

(* the caller's teacher request *)
Request(e) == teacherRequests[ByEmail(teacherRequests, e)]

(* C15: one request after the other: the deny of a pending request leaves   *)
(* it 'rejected' and every user as it was; the resubmit of the rejected     *)
(* request makes it 'pending' with requestedAt set to the time of the       *)
(* resubmit; the approve of the pending request leaves it 'approved' and    *)
(* the user with role 'teacher'.                                            *)
C15_DenyResubmitApprove ==
  [][\A s \in Slots, e \in Emails :
       (reqs[s].pc \notin {"idle", "done"} /\ reqs[s].args.email = e /\ reqs'[s] # reqs[s])
       => /\ At(s, "deny", "setStatus")
             => ( /\ Request(e).status = "pending"
                  /\ Request(e)'.status = "rejected"
                  /\ reqs'[s].resp.status = 200
                  /\ users' = users )
          /\ (At(s, "resubmit", "findOne") /\ RequestStatus(e) = "rejected")
             => (reqs'[s].pc = "updateOne" /\ reqs'[s].loc.requestedAt = clock)
          /\ At(s, "resubmit", "updateOne")
             => ( /\ Request(e).status = "rejected"
                  /\ Request(e)'.status = "pending"
                  /\ Request(e)'.requestedAt = reqs[s].loc.requestedAt
                  /\ Request(e)'.requestedAt >= Request(e).rejectedAt
                  /\ reqs'[s].resp.status = 200 )
          /\ At(s, "approve", "setStatus")
             => ( /\ Request(e).status = "pending"
                  /\ Request(e)'.status = "approved"
                  /\ UserRole(e)' = "teacher"
                  /\ reqs'[s].resp.status = 200 )]_vars

C15_Witness ==
  \E i \in 1..Len(teacherRequests) :
    /\ teacherRequests[i].status = "approved"
    /\ teacherRequests[i].rejectedAt > 0
    /\ teacherRequests[i].requestedAt > teacherRequests[i].rejectedAt
    /\ UserRole(teacherRequests[i].email) = "teacher"
    /\ \E s \in Slots : reqs[s].op = "approve" /\ reqs[s].resp.status = 200

---------------------------------------------------------------------------
(* Class routes, continued *)

(* C16: POST /classes stores a class only for a caller whose identity has   *)
(* role 'teacher'.                                                          *)
C16_OnlyTeachersCreate ==
  [][\A s \in Slots :
       (At(s, "createClass", "insertOne") /\ classes' # classes)
       => Identity(reqs[s].args.caller).role = "teacher"]_vars

---------------------------------------------------------------------------
(* Enrollment and payment routes, continued *)

(* C17: a confirm-enroll request whose retrieved payment intent is not      *)
(* 'succeeded' answers 400 and stores nothing; a confirm-enroll request     *)
(* gets past the retrieval, and stores an enrollment, only for an intent    *)
(* that is 'succeeded'.                                                     *)
C17_ConfirmNeedsSucceeded ==
  /\ [](\A s \in Slots :
          (reqs[s].op = "confirmEnroll" /\ reqs[s].pc \in {"findExisting", "insertOne"})
          => ( /\ reqs[s].args.paymentIntentId \in 1..Len(intents)
               /\ intents[reqs[s].args.paymentIntentId].status = "succeeded" ))
  /\ [][\A s \in Slots :
          /\ ( /\ At(s, "confirmEnroll", "retrieve") /\ reqs'[s] # reqs[s]
               /\ reqs[s].args.paymentIntentId \in 1..Len(intents)
               /\ intents[reqs[s].args.paymentIntentId].status # "succeeded" )
             => ( /\ reqs'[s].pc = "done"
                  /\ reqs'[s].resp = [status |-> 400, msg |-> "Payment not completed"]
                  /\ enroll' = enroll )
          /\ (reqs[s].op = "confirmEnroll" /\ reqs'[s] # reqs[s] /\ enroll' # enroll)
             => reqs[s].pc = "insertOne" ]_vars

C17_Witness ==
  /\ \E s \in Slots :
       /\ reqs[s].op = "confirmEnroll"
       /\ reqs[s].resp = [status |-> 400, msg |-> "Payment not completed"]
  /\ \E i \in 1..Len(intents) : intents[i].status # "succeeded"

---------------------------------------------------------------------------
(* The life of the process: run() connects, registers the routes and calls  *)
(* app.listen; the SIGINT handler closes the client and exits.              *)

Serving == server.phase \in {"listening", "closing"}
Connected == server.conn \in {"open", "closing"}
InFlight(s) == reqs[s].pc \notin {"idle", "done", "hung"}

(* await client.connect() resolved: the routes are registered and app.listen runs *)
Connect ==
  /\ server.phase = "starting" /\ prog # "p1"
  /\ server' = Listening
  /\ UNCHANGED <<prog, users, teacherRequests, classes, enroll, payments, intents, reqs,
                 clock, nextClassId>>

(* await client.connect() rejected: the catch logs it, app.listen never runs *)
ConnectFails ==
  /\ server.phase = "starting" /\ prog # "p1"
  /\ server' = [phase |-> "failed", conn |-> "none"]
  /\ UNCHANGED <<prog, users, teacherRequests, classes, enroll, payments, intents, reqs,
                 clock, nextClassId>>

(* the second program of part_000: client.connect() is commented out *)
ListenUnconnected ==
  /\ server.phase = "starting" /\ prog = "p1"
  /\ server' = [phase |-> "listening", conn |-> "none"]
  /\ UNCHANGED <<prog, users, teacherRequests, classes, enroll, payments, intents, reqs,
                 clock, nextClassId>>

(* the driver connects when the first storage call needs a connection *)
LazyConnect ==
  /\ Serving /\ server.conn = "none"
  /\ \E s \in Slots : InFlight(s)
  /\ server' = [server EXCEPT !.conn = "open"]
  /\ UNCHANGED <<prog, users, teacherRequests, classes, enroll, payments, intents, reqs,
                 clock, nextClassId>>

(* process.on('SIGINT'): client.close() begins; in the second program of    *)
(* part_000 the close is commented out and the process exits at once        *)
Sigint ==
  /\ server.phase = "listening"
  /\ server' = IF prog = "p1" THEN [server EXCEPT !.phase = "exited"]
               ELSE [phase |-> "closing", conn |-> "closing"]
  /\ UNCHANGED <<prog, users, teacherRequests, classes, enroll, payments, intents, reqs,
                 clock, nextClassId>>

(* client.close() resolved: process.exit(0) *)
CloseDone ==
  /\ server.phase = "closing"
  /\ server' = [phase |-> "exited", conn |-> "closed"]
  /\ UNCHANGED <<prog, users, teacherRequests, classes, enroll, payments, intents, reqs,
                 clock, nextClassId>>

(* the handler's awaited storage call is inside a try/catch *)
Catches(op) == op = "enroll" \/ (op = "createClass" /\ prog \in {"part2", "part3"})

ErrorMessage(op) ==
  IF op = "enroll" THEN "Server error during enrollment"
  ELSE IF prog = "part2" THEN "Failed to add class"
  ELSE "Server error adding class"

(* the awaited storage call of a request rejects.  With a try/catch the     *)
(* handler answers 500.  Without one the handler's promise is rejected and  *)
(* nobody handles it: the request is never answered, and the process goes   *)
(* on or is terminated, as the runtime treats unhandled rejections.         *)
StorageFails(s) ==
  /\ Serving /\ InFlight(s)
  /\ IF Catches(reqs[s].op)
       THEN /\ reqs' = [reqs EXCEPT ![s] = Done(@, 500, ErrorMessage(reqs[s].op))]
            /\ server' = server
       ELSE /\ reqs' = [reqs EXCEPT ![s] = Thrown(reqs[s].op, NoArgs)]
            /\ server' \in {server, [server EXCEPT !.phase = "crashed"]}
  /\ UNCHANGED <<prog, users, teacherRequests, classes, enroll, payments, intents, clock,
                 nextClassId>>

LifePrograms == {"index", "p1", "part3"}

InitLife ==
  /\ prog \in LifePrograms
  /\ server = [phase |-> "starting", conn |-> "none"]
  /\ users = << >> /\ teacherRequests = << >> /\ classes = << >> /\ enroll = << >>
  /\ payments = << >> /\ intents = << >>
  /\ reqs = [s \in Slots |-> IdleReq]
  /\ clock = 1 /\ nextClassId = 1

NextLife ==
  \/ Connect
  \/ ConnectFails
  \/ ListenUnconnected
  \/ LazyConnect
  \/ Sigint
  \/ CloseDone
  \/ \E s \in Slots : Serving /\ StartCreateClass(s, Teacher, ValidBody)
  \/ \E s \in Slots : Serving /\ Connected /\ CreateClassInsertOne(s)
  \/ \E s \in Slots, e \in StudentEmails, id \in EnrollIds : Serving /\ StartEnroll(s, e, id)
  \/ \E s \in Slots : Serving /\ Connected /\ EnrollFindClass(s)
  \/ \E s \in Slots : Serving /\ Connected /\ EnrollFindExisting(s)
  \/ \E s \in Slots : Serving /\ Connected /\ EnrollInsertOne(s)
  \/ \E s \in Slots : StorageFails(s)

SpecLife == InitLife /\ [][NextLife]_vars

(* C18: the server is listening only with the storage connection acquired, *)
(* and once client.close() has begun no request is accepted and no handler  *)
(* goes on to a storage call.                                               *)
C18_ScopedConnection ==
  /\ [](server.phase = "listening" => server.conn # "none")
  /\ [][server.conn \in {"closing", "closed"} => reqs' = reqs]_vars

---------------------------------------------------------------------------
(* User routes, continued *)

(* C19: a POST /api/users whose findOne finds a user with the email answers *)
(* 'User already exists' and writes nothing; no step of a create-user       *)
(* request changes a stored user record.                                    *)
C19_CreateExistingIsNoOp ==
  [][\A s \in Slots :
       /\ ( /\ At(s, "createUser", "findOne") /\ reqs'[s] # reqs[s]
            /\ ByEmail(users, reqs[s].args.email) # 0 )
          => ( /\ reqs'[s].pc = "done"
               /\ reqs'[s].resp = [status |-> 200, msg |-> "User already exists"]
               /\ users' = users )
       /\ (reqs[s].op = "createUser" /\ InFlight(s) /\ reqs'[s] # reqs[s])
          => \A i \in 1..Len(users) : users'[i] = users[i] ]_vars

C19_Witness ==
  /\ \E s \in Slots :
       /\ reqs[s].op = "createUser"
       /\ reqs[s].resp = [status |-> 200, msg |-> "User already exists"]
  /\ \E i \in 1..Len(users) : users[i].role = "teacher"

---------------------------------------------------------------------------
(* C20: when the awaited storage call of a request rejects, that request is *)
(* answered 500 and the process goes on serving.                            *)
C20_StorageFailureIs500 ==
  [][\A s \in Slots :
       StorageFails(s)
       => ( /\ reqs'[s].pc = "done"
            /\ reqs'[s].resp.status = 500
            /\ server' = server )]_vars

---------------------------------------------------------------------------
(* C21: a status update by an admin, with a valid status and a well-formed  *)
(* class id that names no stored class, is answered 404 and changes no      *)
(* class.                                                                   *)
C21_MissingClassNotFound ==
  [][\A s \in Slots :
       ( /\ reqs[s].op = "setStatus"
         /\ reqs[s].pc \in {"findOne", "updateOne"}
         /\ reqs'[s].pc = "done"
         /\ requireAdmin(reqs[s].args.user)
         /\ reqs[s].args.status \in StatusValues
         /\ ObjectIdIsValid(reqs[s].args.id)
         /\ ClassIdx(reqs[s].args.id) = 0 )
       => (reqs'[s].resp.status = 404 /\ classes' = classes)]_vars

---------------------------------------------------------------------------
(* C22: on every route that takes a class id from the path or the body, a   *)
(* request with a malformed class id (and every other required field        *)
(* present) is answered 400 on arrival, before any storage call, and the    *)
(* store is unchanged.                                                      *)
C22_MalformedIdRejected ==
  [][\A s \in Slots, id \in EnrollIds :
       ~ObjectIdIsValid(id) =>
         ( ( \/ StartEnroll(s, "a@x", id)
             \/ StartCreateIntent(s, "a@x", id) /\ prog # "p0"
             \/ \E pi \in IntentTokens \ {NoId} : StartConfirmEnroll(s, "a@x", id, pi)
             \/ \E body \in PaymentBodies :
                  body.classId = id /\ body.email = "a@x" /\ StartPayments(s, body)
             \/ \E body \in PaymentSuccessBodies :
                  body.classId = id /\ body.email = "a@x" /\ StartPaymentSuccess(s, body) )
           => ( /\ reqs'[s].pc = "done"
                /\ reqs'[s].resp.status = 400
                /\ enroll' = enroll /\ payments' = payments ) )]_vars

---------------------------------------------------------------------------
(* Class routes over a store that already holds classes: the database       *)
(* outlives the process, so a server can start with the classes an earlier  *)
(* run stored. The second class may have been created by a caller without   *)
(* identity (owner email null).                                             *)
StoredClasses ==
  { << ApplySet([ValidBody EXCEPT !.status = st, !.email = "a@x"], [_id |-> 1]),
       ApplySet([ValidBody EXCEPT !.status = "pending", !.email = e], [_id |-> 2]) >> :
      st \in StatusValues, e \in {"a@x", "b@x", Null} }

InitClassStored ==
  /\ prog \in {"index", "p1", "part2"}
  /\ server = Listening
  /\ users = << >> /\ teacherRequests = << >>
  /\ classes \in StoredClasses
  /\ enroll = << >> /\ payments = << >> /\ intents = << >>
  /\ reqs = [s \in Slots |-> IdleReq]
  /\ clock = 1
  /\ nextClassId = Len(classes) + 1

(* update, status-update and delete requests, one after the other *)
NextClassStored ==
  \/ \E s \in Slots, c \in Callers, id \in IdTokens, body \in UpdateBodies :
       Quiet /\ StartPut(s, c, id, body)
  \/ \E s \in Slots, c \in Callers, id \in IdTokens : Quiet /\ StartDelete(s, c, id)
  \/ \E s \in Slots, c \in Callers, id \in IdTokens, st \in StatusInputs :
       Quiet /\ StartSetStatus(s, c, id, st)
  \/ \E s \in Slots : PutFindOne(s)
  \/ \E s \in Slots : PutUpdateOne(s)
  \/ \E s \in Slots : DeleteFindOne(s)
  \/ \E s \in Slots : DeleteDeleteOne(s)
  \/ \E s \in Slots : SetStatusFindOne(s)
  \/ \E s \in Slots : SetStatusUpdateOne(s)

SpecClassStored == InitClassStored /\ [][NextClassStored]_vars

(* C23: the update a PUT /classes/:id applies changes at most title, price, *)
(* description and image of the class the path names: the class's status,   *)
(* owner email and id stay, no class appears or disappears, and every other *)
(* class is left as it was, whatever the body carries.                      *)
C23_PutFrame ==
  [][\A s \in Slots :
       ( /\ reqs[s].op = "put" /\ reqs[s].pc \in {"findOne", "updateOne"}
         /\ reqs'[s] # reqs[s] )
       => ( /\ Len(classes') = Len(classes)
            /\ \A i \in 1..Len(classes) :
                 /\ classes'[i].status = classes[i].status
                 /\ classes'[i].email = classes[i].email
                 /\ classes'[i]._id = classes[i]._id
                 /\ classes[i]._id # reqs[s].args.id => classes'[i] = classes[i] )]_vars

(* a PUT whose body carried title, status and email has been applied *)
C23_Witness ==
  /\ \E s \in Slots :
       reqs[s].op = "put" /\ reqs[s].resp = [status |-> 200, msg |-> "Class updated"]
  /\ Len(classes) = 2
  /\ classes[1].title = "T2" /\ classes[1].email = "a@x" /\ classes[1].status = "pending"
  /\ classes[2].title = "T1"

---------------------------------------------------------------------------
(* C24: every stored class has a status among pending, approved and         *)
(* rejected, after any sequence of create, update, status-update and        *)
(* delete requests, in every program that registers class routes.           *)
C24_StatusInRange ==
  \A i \in 1..Len(classes) : classes[i].status \in StatusValues

(* the second program of part_000 has applied an admin's status update *)
C24_Witness ==
  /\ prog = "p1"
  /\ \E s \in Slots :
       reqs[s].op = "setStatus" /\ reqs[s].resp = [status |-> 200, msg |-> "Status updated"]
  /\ \E i \in 1..Len(classes) : classes[i].status = "rejected"

---------------------------------------------------------------------------
(* C25: there is at most one user record per email, also when two           *)
(* POST /api/users requests for the same email overlap.                     *)
C25_OneUserPerEmail ==
  \A e \in Emails : CountWhere(users, [email |-> e]) <= 1

---------------------------------------------------------------------------
(* The teacher workflow of index.js and of the second program of part_000:  *)
(* request-teacher, approve-teacher and deny-teacher are registered twice,  *)
(* first on the teacherRequest flag of the user record, then on the         *)
(* teacherRequests collection.                                              *)

(* POST /api/users/request-teacher, first registration *)
StartFlagRequest(s, hEmail) ==
  /\ Free(s)
  /\ Handler("requestTeacher") = "flag"
  /\ LET user == mockAuth(hEmail, Undef)
     IN reqs' = [Waiting EXCEPT ![s] =
          IF ~Truthy(user.email)
            THEN Rejected("flagRequest", 400, "User not logged in")
            ELSE NewReq("flagRequest", "findOne", [email |-> user.email])]
  /\ UNCHANGED <<server, prog, users, teacherRequests, classes, enroll, payments, intents,
                 clock, nextClassId>>

FlagRequestFindOne(s) ==
  /\ At(s, "flagRequest", "findOne")
  /\ LET i == ByEmail(users, reqs[s].args.email)
     IN reqs' = [reqs EXCEPT ![s] =
          IF i = 0 THEN Done(@, 404, "User not found")
          ELSE IF users[i].teacherRequest THEN Done(@, 400, "Teacher request already sent")
          ELSE IF users[i].role = "teacher" THEN Done(@, 400, "You are already a teacher")
          ELSE Goto(@, "updateOne")]
  /\ UNCHANGED <<server, prog, users, teacherRequests, classes, enroll, payments, intents,
                 clock, nextClassId>>

FlagRequestUpdateOne(s) ==
  /\ At(s, "flagRequest", "updateOne")
  /\ users' = UpdateOne(users, [email |-> reqs[s].args.email], [teacherRequest |-> TRUE])
  /\ reqs' = [reqs EXCEPT ![s] = Done(@, 200, "Teacher request sent")]
  /\ UNCHANGED <<server, prog, teacherRequests, classes, enroll, payments, intents, clock,
                 nextClassId>>

(* PATCH /api/users/approve-teacher/:email, first registration *)
StartFlagApprove(s, hEmail, hRole, email) ==
  /\ Free(s)
  /\ Handler("approve") = "flag"
  /\ reqs' = [Waiting EXCEPT ![s] =
       IF ~requireAdmin(mockAuth(hEmail, hRole))
         THEN Rejected("flagApprove", 403, "Admins only")
         ELSE NewReq("flagApprove", "updateOne", [email |-> email])]
  /\ UNCHANGED <<server, prog, users, teacherRequests, classes, enroll, payments, intents,
                 clock, nextClassId>>

FlagApproveUpdateOne_Unguarded(s) ==
  /\ At(s, "flagApprove", "updateOne")
  /\ users' = UpdateOne(users, [email |-> reqs[s].args.email],
                        [role |-> "teacher", teacherRequest |-> FALSE])
  /\ reqs' = [reqs EXCEPT ![s] =
       IF users' = users
         THEN DoneKeep(@, 404, "No pending request found for this user")
         ELSE DoneKeep(@, 200, "Teacher role approved")]
  /\ UNCHANGED <<server, prog, teacherRequests, classes, enroll, payments, intents, clock,
                 nextClassId>>

(* one conditional update; modifiedCount is 0 when no document matched *)
FlagApproveUpdateOne(s) ==
  /\ At(s, "flagApprove", "updateOne")
  /\ users' = UpdateOne(users, [email |-> reqs[s].args.email, teacherRequest |-> TRUE],
                        [role |-> "teacher", teacherRequest |-> FALSE])
  /\ reqs' = [reqs EXCEPT ![s] =
       IF users' = users
         THEN DoneKeep(@, 404, "No pending request found for this user")
         ELSE DoneKeep(@, 200, "Teacher role approved")]
  /\ UNCHANGED <<server, prog, teacherRequests, classes, enroll, payments, intents, clock,
                 nextClassId>>

(* PATCH /api/users/deny-teacher/:email, first registration *)
StartFlagDeny(s, hEmail, hRole, email) ==
  /\ Free(s)
  /\ Handler("deny") = "flag"
  /\ reqs' = [Waiting EXCEPT ![s] =
       IF ~requireAdmin(mockAuth(hEmail, hRole))
         THEN Rejected("flagDeny", 403, "Admins only")
         ELSE NewReq("flagDeny", "updateOne", [email |-> email])]
  /\ UNCHANGED <<server, prog, users, teacherRequests, classes, enroll, payments, intents,
                 clock, nextClassId>>

FlagDenyUpdateOne(s) ==
  /\ At(s, "flagDeny", "updateOne")
  /\ users' = UpdateOne(users, [email |-> reqs[s].args.email, teacherRequest |-> TRUE],
                        [teacherRequest |-> FALSE])
  /\ reqs' = [reqs EXCEPT ![s] =
       IF users' = users
         THEN DoneKeep(@, 404, "No pending request found for this user")
         ELSE DoneKeep(@, 200, "Teacher request denied")]
  /\ UNCHANGED <<server, prog, teacherRequests, classes, enroll, payments, intents, clock,
                 nextClassId>>

(* GET /api/users/request-teacher/status: the response carries the status   *)
(* of the caller's request, or null                                         *)
StartStatus(s, hEmail) ==
  /\ Free(s)
  /\ LET user == mockAuth(hEmail, Undef)
     IN reqs' = [Waiting EXCEPT ![s] =
          IF ~Truthy(user.email)
            THEN Rejected("status", 400, "User not logged in")
            ELSE NewReq("status", "findOne", [email |-> user.email])]
  /\ UNCHANGED <<server, prog, users, teacherRequests, classes, enroll, payments, intents,
                 clock, nextClassId>>

StatusFindOne(s) ==
  /\ At(s, "status", "findOne")
  /\ LET i == ByEmail(teacherRequests, reqs[s].args.email)
     IN reqs' = [reqs EXCEPT ![s] =
          DoneKeep(@, 200, IF i = 0 THEN Null ELSE teacherRequests[i].status)]
  /\ UNCHANGED <<server, prog, users, teacherRequests, classes, enroll, payments, intents,
                 clock, nextClassId>>

(* All three programs with teacher routes, one request after the other; a   *)
(* request-teacher, approve or deny request runs the handler registered     *)
(* first for its path.                                                      *)
InitWorkflow == prog \in {"p0", "index", "p1"} /\ InitStore

NextWorkflow ==
  \/ \E s \in Slots, body \in UserBodies : Quiet /\ StartCreateUser(s, body)
  \/ \E s \in Slots : CreateUserFindOne(s)
  \/ \E s \in Slots : CreateUserInsertOne(s)
  \/ \E s \in Slots, e \in HeaderEmails, r \in UserRoles, body \in TeacherBodies :
       Quiet /\ Handler("requestTeacher") = "collection"
             /\ StartRequestTeacher(s, e, r, body)
  \/ \E s \in Slots : RequestTeacherFindUser(s)
  \/ \E s \in Slots : RequestTeacherFindRequest(s)
  \/ \E s \in Slots : RequestTeacherWrite(s)
  \/ \E s \in Slots, e \in AdminEmails, r \in HeaderRoles, t \in Emails :
       Quiet /\ Handler("approve") = "collection" /\ StartApprove(s, e, r, t)
  \/ \E s \in Slots : ApproveFindOne(s)
  \/ \E s \in Slots : ApproveSetRole(s)
  \/ \E s \in Slots : ApproveSetStatus(s)
  \/ \E s \in Slots, e \in AdminEmails, r \in HeaderRoles, t \in Emails :
       Quiet /\ Handler("deny") = "collection" /\ StartDeny(s, e, r, t)
  \/ \E s \in Slots : DenyFindOne(s)
  \/ \E s \in Slots : DenySetStatus(s)
  \/ \E s \in Slots, e \in HeaderEmails : Quiet /\ StartFlagRequest(s, e)
  \/ \E s \in Slots : FlagRequestFindOne(s)
  \/ \E s \in Slots : FlagRequestUpdateOne(s)
  \/ \E s \in Slots, e \in AdminEmails, r \in HeaderRoles, t \in Emails :
       Quiet /\ StartFlagApprove(s, e, r, t)
  \/ \E s \in Slots : FlagApproveUpdateOne(s)
  \/ \E s \in Slots, e \in AdminEmails, r \in HeaderRoles, t \in Emails :
       Quiet /\ StartFlagDeny(s, e, r, t)
  \/ \E s \in Slots : FlagDenyUpdateOne(s)
  \/ \E s \in Slots, e \in HeaderEmails : Quiet /\ StartStatus(s, e)
  \/ \E s \in Slots : StatusFindOne(s)
  \/ \E s \in Slots, e \in HeaderEmails, r \in UserRoles : Quiet /\ StartResubmit(s, e, r)
  \/ \E s \in Slots : ResubmitFindOne(s)
  \/ \E s \in Slots : ResubmitUpdateOne(s)

SpecWorkflow == InitWorkflow /\ [][NextWorkflow]_vars


(* C26: in index.js and the second program of part_000 the request-teacher, *)
(* approve-teacher and deny-teacher requests run the handlers registered    *)
(* first: they leave the teacherRequests collection alone and change, on    *)
(* user records, nothing but the teacherRequest flag (and, on approve, the  *)
(* role). The collection therefore stays empty: a status request that gets  *)
(* past the identity check reports null, and a resubmit request that gets   *)
(* past it fails with 'No rejected request to resubmit'.                    *)
C26_FlagWorkflowOnly ==
  /\ [](prog \in {"index", "p1"} => teacherRequests = << >>)
  /\ [](prog \in {"index", "p1"} =>
          \A s \in Slots :
            /\ (reqs[s].op = "status" /\ reqs[s].pc = "done")
               => reqs[s].resp \in { [status |-> 200, msg |-> Null],
                                     [status |-> 400, msg |-> "User not logged in"] }
            /\ (reqs[s].op = "resubmit" /\ reqs[s].pc = "done")
               => reqs[s].resp \in { [status |-> 400, msg |-> "No rejected request to resubmit"],
                                     [status |-> 400, msg |-> "User not logged in"] }
            /\ reqs[s].op \notin {"requestTeacher", "approve", "deny"})
  /\ [][(prog \in {"index", "p1"}) =>
        ( /\ teacherRequests' = teacherRequests
          /\ \A s \in Slots :
               ( /\ reqs[s].op \in {"flagRequest", "flagApprove", "flagDeny"}
                 /\ reqs[s].pc \notin {"done", "hung"}
                 /\ reqs'[s] # reqs[s] )
               => ( /\ Len(users') = Len(users)
                    /\ \A i \in 1..Len(users) :
                         /\ \A f \in {"name", "email", "photo"} : users'[i][f] = users[i][f]
                         /\ reqs[s].op # "flagApprove" => users'[i].role = users[i].role ) )]_vars

(* a user made teacher through the flag asks for the status of their request *)
C26_Witness ==
  /\ prog = "index"
  /\ \E s \in Slots :
       /\ reqs[s].op = "status" /\ reqs[s].resp = [status |-> 200, msg |-> Null]
       /\ \E i \in 1..Len(users) :
            users[i].email = reqs[s].args.email /\ users[i].role = "teacher"


---------------------------------------------------------------------------
(* The flag-based workflow with requests overlapping *)
InitFlag == prog \in {"index", "p1"} /\ InitStore

NextFlag ==
  \/ \E s \in Slots, body \in UserBodies : StartCreateUser(s, body)
  \/ \E s \in Slots : CreateUserFindOne(s)
  \/ \E s \in Slots : CreateUserInsertOne(s)
  \/ \E s \in Slots, e \in HeaderEmails : StartFlagRequest(s, e)
  \/ \E s \in Slots : FlagRequestFindOne(s)
  \/ \E s \in Slots : FlagRequestUpdateOne(s)
  \/ \E s \in Slots, e \in AdminEmails, r \in HeaderRoles, t \in Emails :
       StartFlagApprove(s, e, r, t)
  \/ \E s \in Slots : FlagApproveUpdateOne(s)
  \/ \E s \in Slots, e \in AdminEmails, r \in HeaderRoles, t \in Emails :
       StartFlagDeny(s, e, r, t)
  \/ \E s \in Slots : FlagDenyUpdateOne(s)

SpecFlag == InitFlag /\ [][NextFlag]_vars

(* the user record of email e has its teacherRequest flag set *)
FlagPending(e) == FirstIdx(users, [email |-> e, teacherRequest |-> TRUE]) # 0

(* C27: an approve or a deny of the flag-based workflow is one conditional  *)
(* update: it succeeds exactly when the user's flag is set at the moment of *)
(* the update and it clears the flag, an approve leaving the user with role *)
(* 'teacher' and the flag cleared; otherwise it answers 404 and changes     *)
(* nothing. So of an approve and a deny for the same user that overlap      *)
(* each other (and no request-teacher of that user), the first to update    *)
(* succeeds when the flag is set and the two never both succeed.            *)
C27_ApproveDenyAtomic ==
  /\ [][\A s \in Slots, e \in Emails :
          ( /\ reqs[s].op \in {"flagApprove", "flagDeny"} /\ reqs[s].pc = "updateOne"
            /\ reqs[s].args.email = e /\ reqs'[s].pc = "done" )
          => IF FlagPending(e)
               THEN /\ reqs'[s].resp.status = 200
                    /\ ~FlagPending(e)'
                    /\ reqs[s].op = "flagApprove"
                       => users'[ByEmail(users, e)] =
                            [users[ByEmail(users, e)] EXCEPT
                               !.role = "teacher", !.teacherRequest = FALSE]
               ELSE reqs'[s].resp.status = 404 /\ users' = users]_vars
  /\ [](\A s \in Slots, t \in Slots :
          ( /\ reqs[s].op = "flagApprove" /\ reqs[s].pc = "done"
            /\ reqs[t].op = "flagDeny" /\ reqs[t].pc = "done"
            /\ reqs[s].resp.status # 403 /\ reqs[t].resp.status # 403
            /\ reqs[s].args.email = reqs[t].args.email
            /\ \A u \in Slots : reqs[u].op # "flagRequest" )
          => ~(reqs[s].resp.status = 200 /\ reqs[t].resp.status = 200))

(* an approve and a deny for one user overlapped; the approve won *)
C27_Witness ==
  \E s \in Slots, t \in Slots :
    /\ reqs[s].op = "flagApprove" /\ reqs[s].resp.status = 200
    /\ reqs[t].op = "flagDeny" /\ reqs[t].resp.status = 404
    /\ reqs[s].args.email = reqs[t].args.email
    /\ users[ByEmail(users, reqs[s].args.email)].role = "teacher"
    /\ ~users[ByEmail(users, reqs[s].args.email)].teacherRequest


---------------------------------------------------------------------------
(* C28: a PUT or DELETE /classes/:id request that carries no x-user-email   *)
(* header and whose role is not 'admin' never changes or removes a stored   *)
(* class, whoever created the class.                                        *)
C28_AnonymousCannotModify ==
  [][\A s \in Slots :
       ( /\ reqs[s].op \in {"put", "delete"}
         /\ reqs[s].pc \in {"findOne", "updateOne", "deleteOne"}
         /\ reqs'[s] # reqs[s]
         /\ reqs[s].args.user = mockAuth(Undef, Undef) )
       => ( /\ classes' = classes
            /\ reqs'[s].pc = "done" => reqs'[s].resp.status \in {403, 404} )]_vars


---------------------------------------------------------------------------
(* Classes, enrollments and paid enrollments together, one request after    *)
(* the other: a teacher creates and deletes a class, two students enroll,   *)
(* cancel, and confirm a payment.                                           *)
InitCourse == prog \in {"index", "p1"} /\ InitStore

NextCourse ==
  \/ \E s \in Slots : Quiet /\ StartCreateClass(s, Teacher, ValidBody)
  \/ \E s \in Slots : CreateClassInsertOne(s)
  \/ \E s \in Slots, id \in EnrollIds : Quiet /\ StartDelete(s, Teacher, id)
  \/ \E s \in Slots : DeleteFindOne(s)
  \/ \E s \in Slots : DeleteDeleteOne(s)
  \/ \E s \in Slots, e \in Emails, id \in EnrollIds : Quiet /\ StartEnroll(s, e, id)
  \/ \E s \in Slots : EnrollFindClass(s)
  \/ \E s \in Slots : EnrollFindExisting(s)
  \/ \E s \in Slots : EnrollInsertOne(s)
  \/ \E s \in Slots, e \in Emails, id \in EnrollIds : Quiet /\ StartCancel(s, e, id)
  \/ \E s \in Slots : CancelDeleteOne(s)
  \/ \E s \in Slots, e \in Emails, id \in EnrollIds : Quiet /\ StartCreateIntent(s, e, id)
  \/ \E s \in Slots : CreateIntentFindClass(s)
  \/ \E s \in Slots : CreateIntentCreate(s)
  \/ \E i \in 1..MaxIntents : IntentSucceeds(i)
  \/ \E s \in Slots, e \in Emails, id \in EnrollIds, pi \in IntentTokens :
       Quiet /\ StartConfirmEnroll(s, e, id, pi)
  \/ \E s \in Slots : ConfirmEnrollFindClass(s)
  \/ \E s \in Slots : ConfirmEnrollRetrieve(s)
  \/ \E s \in Slots : ConfirmEnrollFindExisting(s)
  \/ \E s \in Slots : ConfirmEnrollInsertOne(s)

SpecCourse == InitCourse /\ [][NextCourse]_vars

(* C29: at most one stored enrollment carries a given paymentIntentId,      *)
(* whatever class ids and caller emails the confirm-enroll requests that    *)
(* carry it name.                                                           *)
C29_OneEnrollmentPerIntent ==
  \A pi \in 1..MaxIntents : CountWhere(enroll, [paymentIntentId |-> pi]) <= 1

(* C30: every stored enrollment names a class that is in the store.         *)
C30_EnrollmentsNameStoredClasses ==
  \A i \in 1..Len(enroll) : ClassIdx(enroll[i].classId.id) # 0

====
